---- MODULE Spec2Model ----
(***************************************************************************)
(* chatlink: the roleplay settings service (RoleplayService), the prompt   *)
(* composer (promptUtils) and the two revisions of the chat page that host *)
(* them: the page whose inline onSettingsChange handler reconciles an edit *)
(* with the transcript, and the page whose handleSettingsChange saves the  *)
(* edit directly.                                                          *)
(*                                                                         *)
(* A JavaScript object is a function from the keys it holds to their       *)
(* values; a key may be absent, or present with the value undefined, and   *)
(* the two differ under object spread but not under JSON.stringify.        *)
(* The fixed Chinese texts of the source are written in ASCII.             *)
(***************************************************************************)
EXTENDS Integers, Sequences, FiniteSets, TLC

VARIABLES
    messages,              \* page: let messages = $state<ChatMessage[]>([])
    roleplaySettings,      \* page: let roleplaySettings
    showRoleplaySettings,  \* page: let showRoleplaySettings = $state(false)
    loading,               \* page: let loading = $state(false)
    stream,                \* the sendMessage call in flight, if any
    calls,                 \* page: isModelValid, and the other async handlers in flight
    service,               \* the RoleplayService instance: [settings, templates]
    storage,               \* localStorage
    page,                  \* which revision of the page runs: "inline" or "direct"
    ev,                    \* the last event handled and what confirm() returned in it
    held                   \* the object a caller of the service got from it last

vars == <<messages, roleplaySettings, showRoleplaySettings, loading, stream, calls,
          service, storage, page, ev, held>>

-----------------------------------------------------------------------------
(* Bounds of the model *)

\* the longest transcript a send may still extend
MaxMsgs == 4
\* how many chunks one streamed reply carries at most
MaxChunks == 1
\* how many sendMessage calls may read their streams at the same time
MaxStreams == 2

-----------------------------------------------------------------------------
(* JavaScript values and objects *)

undefined == "<undefined>"

ROLEPLAY_SETTINGS_KEY == "roleplay_settings"
ROLEPLAY_TEMPLATES_KEY == "roleplay_templates"

IdentityKeys == {"characterName", "characterRole", "sceneDescription",
                 "scenarioDescription", "systemPrompt"}
TemplateKeys == IdentityKeys \cup {"avatarBase64"}
SettingsKeys == TemplateKeys \cup {"isRoleplayMode"}

\* o.k : undefined when the object holds no such key
Get(o, k) == IF k \in DOMAIN o THEN o[k] ELSE undefined

\* { ...a, ...b } : every key of either, b's value where b holds the key
Spread(a, b) == [k \in DOMAIN a \cup DOMAIN b |-> IF k \in DOMAIN b THEN b[k] ELSE a[k]]

\* { ...o, [k]: v }
With(o, k, v) == [j \in DOMAIN o \cup {k} |-> IF j = k THEN v ELSE o[j]]

\* the keys JSON.stringify writes: a key whose value is undefined is left out
\* (only avatarBase64 is ever undefined; isRoleplayMode is a boolean)
Written(o) == {k \in DOMAIN o : ~(k = "avatarBase64" /\ o[k] = undefined)}

\* JSON.parse(JSON.stringify(o)) for a flat object
JsonObject(o) == [k \in Written(o) |-> o[k]]

\* JSON.parse(JSON.stringify(c)) for a collection name -> flat object
JsonCollection(c) == [n \in DOMAIN c |-> JsonObject(c[n])]

\* jsonUtils.deepClone
deepClone(o) == JsonObject(o)

\* null as the value of a field
nullField == "<null>"

\* JavaScript truthiness of a string, undefined or null
Truthy(v) == v # undefined /\ v # "" /\ v # nullField

-----------------------------------------------------------------------------
(* storageUtils over localStorage *)

NoItem == [kind |-> "absent"]
Item(v) == [kind |-> "json", value |-> v]

\* a stored text that JSON.parse rejects
Garbage == [kind |-> "garbage"]

\* a key for which localStorage.getItem throws
Unreadable == [kind |-> "unreadable"]

\* the value null, which the stored text "null" parses to
null == [k \in {"<null>"} |-> TRUE]

\* an item under a key for which localStorage.setItem throws (quota, private mode)
Lock(item) == item @@ [locked |-> TRUE]
Locked(item) == "locked" \in DOMAIN item

\* JSON.parse(JSON.stringify(value)) of what is kept under each key: the settings
\* key holds a flat object, the templates key a collection of them
Json(key, value) ==
    IF value = null THEN null
    ELSE IF key = ROLEPLAY_TEMPLATES_KEY THEN JsonCollection(value) ELSE JsonObject(value)

\* saveToStorage(key, value): localStorage.setItem(key, JSON.stringify(value));
\* when setItem throws, the error is logged and the item stays as it was
saveToStorage(st, key, value) ==
    IF Locked(st[key]) THEN st ELSE [st EXCEPT ![key] = Item(Json(key, value))]

\* loadFromStorage giving the default for a stored object without keys as well
loadFromStorageSeedsEmpty(st, key, defaultValue) ==
    IF st[key].kind = "absent" \/ DOMAIN st[key].value = {} THEN defaultValue
    ELSE st[key].value

\* what a call gives when it throws
Thrown == [found |-> FALSE, thrown |-> TRUE]

\* loadFromStorage without try and catch: the error of getItem or JSON.parse
\* reaches the caller
loadFromStorageUncaught(st, key, defaultValue) ==
    IF st[key].kind = "absent" THEN defaultValue
    ELSE IF st[key].kind \in {"garbage", "unreadable"} THEN Thrown
    ELSE st[key].value

\* loadFromStorage(key, defaultValue): the default itself (not a copy) when
\* the key holds nothing, when getItem throws or when JSON.parse throws, else
\* JSON.parse of the stored text
loadFromStorage(st, key, defaultValue) ==
    IF st[key].kind \in {"absent", "garbage", "unreadable"} THEN defaultValue
    ELSE st[key].value

-----------------------------------------------------------------------------
(* promptUtils *)

Preamble == "You are a roleplay AI assistant."
Closing == "Always stay in character and do not break the fourth wall. Never mention that you are an AI or a language model."

\* promptParts.join('\n\n')
RECURSIVE Join(_)
Join(parts) ==
    IF Len(parts) = 0 THEN ""
    ELSE IF Len(parts) = 1 THEN parts[1]
    ELSE parts[1] \o "\n\n" \o Join(Tail(parts))

\* one conditional clause: pushed only when the field is truthy
Clause(settings, key, label) ==
    IF Truthy(Get(settings, key)) THEN <<label \o settings[key]>> ELSE <<>>

\* generateRoleplaySystemPrompt without the test of isRoleplayMode
generateRoleplaySystemPromptUngated(settings) ==
    Join(<<Preamble>>
         \o Clause(settings, "characterName", "Your name is: ")
         \o Clause(settings, "characterRole", "Your role is: ")
         \o Clause(settings, "sceneDescription", "Current scene: ")
         \o Clause(settings, "scenarioDescription", "Current scenario: ")
         \o Clause(settings, "systemPrompt", "Extra instructions: ")
         \o <<Closing>>)

\* promptUtils.generateRoleplaySystemPrompt
generateRoleplaySystemPrompt(settings) ==
    IF ~settings.isRoleplayMode THEN ""
    ELSE Join(<<Preamble>>
              \o Clause(settings, "characterName", "Your name is: ")
              \o Clause(settings, "characterRole", "Your role is: ")
              \o Clause(settings, "sceneDescription", "Current scene: ")
              \o Clause(settings, "scenarioDescription", "Current scenario: ")
              \o Clause(settings, "systemPrompt", "Extra instructions: ")
              \o <<Closing>>)

NoMessage == [role |-> "none", content |-> ""]

\* promptUtils.generateWelcomeMessage: null (NoMessage) outside roleplay mode
generateWelcomeMessage(settings) ==
    IF ~settings.isRoleplayMode THEN NoMessage
    ELSE [role |-> "ai",
          content |->
              "Welcome to "
              \o (IF Truthy(Get(settings, "sceneDescription"))
                  THEN settings.sceneDescription \o "." ELSE "")
              \o (IF Truthy(Get(settings, "scenarioDescription"))
                  THEN "\n" \o settings.scenarioDescription ELSE "")
              \o "\nI am "
              \o (IF Truthy(Get(settings, "characterName"))
                  THEN settings.characterName ELSE "AI Assistant")
              \o (IF Truthy(Get(settings, "characterRole"))
                  THEN ", " \o settings.characterRole ELSE "")
              \o ". How can I help you?"]

-----------------------------------------------------------------------------
(* RoleplayService *)

\* the built-in templates; each holds the key avatarBase64 with the value undefined
DEFAULT_TEMPLATES ==
    [n \in {"Detective", "Fantasy Adventure", "History", "Sci-Fi"} |->
        [characterName |->
            CASE n = "Fantasy Adventure" -> "Elwin" [] n = "Sci-Fi" -> "Nova-7"
              [] n = "Detective" -> "Sherlock" [] OTHER -> "Professor",
         characterRole |->
            CASE n = "Fantasy Adventure" -> "wizard guide" [] n = "Sci-Fi" -> "starship AI"
              [] n = "Detective" -> "famous detective" [] OTHER -> "historian",
         avatarBase64 |-> undefined,
         sceneDescription |->
            CASE n = "Fantasy Adventure" -> "the Emerald Forest of Eldrin"
              [] n = "Sci-Fi" -> "space station Alpha-9"
              [] n = "Detective" -> "221B Baker Street" [] OTHER -> "the Library of Alexandria",
         scenarioDescription |->
            CASE n = "Fantasy Adventure" -> "find the lost dragon treasure"
              [] n = "Sci-Fi" -> "gravity waves disturb the station"
              [] n = "Detective" -> "a jewel theft by the Thames" [] OTHER -> "explore ancient history",
         systemPrompt |->
            CASE n = "Fantasy Adventure" -> "describe magic in ornate language"
              [] n = "Sci-Fi" -> "use science fiction terms"
              [] n = "Detective" -> "reason with logic" [] OTHER -> "give accurate history"]]

\* the defaults of the constructor and of loadSettings
defaultSettings ==
    [characterName |-> "AI Assistant", characterRole |-> "", sceneDescription |-> "",
     scenarioDescription |-> "", systemPrompt |-> "", isRoleplayMode |-> FALSE,
     avatarBase64 |-> undefined]

\* A service is the record [settings, templates]; the operations below take the
\* service s and localStorage st and give the new [s, st, result].

\* loadSettings taking the stored object as it is, without the defaults under it
loadSettingsUnmerged(s, st) ==
    LET savedSettings == loadFromStorage(st, ROLEPLAY_SETTINGS_KEY, defaultSettings)
    IN IF savedSettings = null
       THEN [s |-> s, st |-> st, result |-> deepClone(s.settings)]
       ELSE [s |-> [s EXCEPT !.settings = savedSettings], st |-> st,
             result |-> deepClone(savedSettings)]

\* RoleplayService.loadSettings
loadSettings(s, st) ==
    LET savedSettings == loadFromStorage(st, ROLEPLAY_SETTINGS_KEY, defaultSettings)
        merged == With(Spread(defaultSettings, savedSettings), "avatarBase64",
                       IF Truthy(Get(savedSettings, "avatarBase64"))
                       THEN savedSettings.avatarBase64 ELSE undefined)
    IN IF savedSettings = null
       THEN [s |-> s, st |-> st, result |-> deepClone(s.settings)]
       ELSE [s |-> [s EXCEPT !.settings = merged], st |-> st, result |-> deepClone(merged)]

\* saveSettings without the write to localStorage
saveSettingsInMemory(s, st, settings) ==
    [s |-> [s EXCEPT !.settings = settings], st |-> st, result |-> undefined]

\* RoleplayService.saveSettings
saveSettings(s, st, settings) ==
    LET kept == With(settings, "avatarBase64", Get(settings, "avatarBase64"))
    IN [s |-> [s EXCEPT !.settings = kept],
        st |-> saveToStorage(st, ROLEPLAY_SETTINGS_KEY, kept),
        result |-> undefined]

\* RoleplayService.loadTemplates
loadTemplates(s, st) ==
    [s |-> [s EXCEPT !.templates = loadFromStorage(st, ROLEPLAY_TEMPLATES_KEY, DEFAULT_TEMPLATES)],
     st |-> st, result |-> undefined]

\* RoleplayService.saveTemplates
saveTemplates(s, st) ==
    [s |-> s, st |-> saveToStorage(st, ROLEPLAY_TEMPLATES_KEY, s.templates), result |-> undefined]

\* new RoleplayService()
constructor(st) ==
    LET s0 == [settings |-> defaultSettings, templates |-> << >>]
        a == loadSettings(s0, st)
    IN loadTemplates(a.s, a.st)

\* RoleplayService.getTemplateNames as a set: the names it returns, whose order
\* is in listTemplateNames
getTemplateNames(s) == DOMAIN s.templates

\* the UTF-16 code units of a name a template can be stored under; the built-in
\* names stand for the Chinese names of the source and have their code units
CodeUnits(name) ==
    CASE name = "Detective" -> <<20597, 25506, 25512, 29702>>
      [] name = "Fantasy Adventure" -> <<22855, 24187, 20882, 38570>>
      [] name = "History" -> <<27511, 21490, 25506, 32034>>
      [] name = "Sci-Fi" -> <<31185, 24187, 23431, 23449>>
      [] name = "Custom" -> <<67, 117, 115, 116, 111, 109>>
      [] OTHER -> << >>

RECURSIVE UnitsBefore(_, _)
\* a < b for strings given as code units
UnitsBefore(a, b) ==
    IF b = << >> THEN FALSE
    ELSE IF a = << >> THEN TRUE
    ELSE IF Head(a) # Head(b) THEN Head(a) < Head(b)
    ELSE UnitsBefore(Tail(a), Tail(b))

\* the comparison of Array.prototype.sort without a comparator
Before(a, b) == UnitsBefore(CodeUnits(a), CodeUnits(b))

RECURSIVE Insert(_, _)
Insert(sorted, x) ==
    IF sorted = << >> THEN <<x>>
    ELSE IF Before(x, Head(sorted)) THEN <<x>> \o sorted
    ELSE <<Head(sorted)>> \o Insert(Tail(sorted), x)

RECURSIVE sort(_)
\* keys.sort()
sort(keys) ==
    IF keys = << >> THEN << >>
    ELSE Insert(sort(SubSeq(keys, 1, Len(keys) - 1)), keys[Len(keys)])

\* what Object.keys(o) can be: the keys of o in the order they were inserted,
\* which the collection as a function does not keep: any order
KeyOrders(o) ==
    {keys \in [1..Cardinality(DOMAIN o) -> DOMAIN o] :
        \A i, j \in DOMAIN keys : i # j => keys[i] # keys[j]}

\* getTemplateNames returning the keys as Object.keys gives them
listTemplateNamesUnsorted(s, keys) == keys

\* RoleplayService.getTemplateNames when Object.keys(this.templates) is keys
listTemplateNames(s, keys) == IF s.templates = null THEN Thrown ELSE sort(keys)

NoTemplate == [found |-> FALSE]

\* names every JavaScript object inherits from Object.prototype (one of them):
\* this.templates[name] is then a function, which is truthy
ObjectPrototype == {"toString"}

\* `this.templates[name]` as a condition: a template of the collection is an
\* object, an inherited property a function
HasTemplate(s, name) == name \in DOMAIN s.templates \/ name \in ObjectPrototype

\* getTemplate returning the template of the collection itself: shared says that
\* the object returned is the one the collection holds
getTemplateShared(s, name) ==
    IF name \in DOMAIN s.templates
    THEN [found |-> TRUE, value |-> s.templates[name], shared |-> TRUE]
    ELSE IF HasTemplate(s, name) THEN Thrown
    ELSE NoTemplate

\* RoleplayService.getTemplate: a deep clone, or undefined (NoTemplate); it
\* throws when this.templates is null (a property of null is read) and for an
\* inherited function (JSON.stringify gives undefined, JSON.parse(undefined)
\* throws a SyntaxError)
getTemplate(s, name) ==
    IF s.templates = null THEN Thrown
    ELSE IF name \in DOMAIN s.templates
    THEN [found |-> TRUE, value |-> deepClone(s.templates[name]), shared |-> FALSE]
    ELSE IF HasTemplate(s, name) THEN Thrown
    ELSE NoTemplate

\* the object a caller holds after getTemplate(name) returned r
Handle(name, r) ==
    [kind |-> "template", name |-> name, value |-> r.value, shared |-> r.shared]

\* the caller's assignment h.value[k] = v: it changes the object held, which is
\* the collection's template when the two are one object
Assign(s, h, k, v) ==
    [s |-> IF h.shared /\ h.name \in DOMAIN s.templates
           THEN [s EXCEPT !.templates[h.name] = With(@, k, v)]
           ELSE s,
     held |-> [h EXCEPT !.value = With(@, k, v)]]

\* RoleplayService.applyTemplate: result.ok is false for the null return
applyTemplate(s, st, templateName) ==
    LET template == getTemplate(s, templateName)
    IN IF template.found
       THEN LET merged == Spread(s.settings, template.value)
            IN [s |-> [s EXCEPT !.settings = merged], st |-> st,
                result |-> [ok |-> TRUE, value |-> deepClone(merged)]]
       ELSE IF template = Thrown
       THEN [s |-> s, st |-> st, result |-> [ok |-> FALSE, thrown |-> TRUE]]
       ELSE [s |-> s, st |-> st, result |-> [ok |-> FALSE]]

\* name.trim() on the names the model offers
trim(name) ==
    CASE name = "  " -> ""
      [] name = " Custom " -> "Custom"
      [] OTHER -> name

\* { ...o } without the key k: delete o[k]
Without(o, k) == [j \in DOMAIN o \ {k} |-> o[j]]

\* saveTemplate storing the template under the name as given
saveTemplateUntrimmed(s, st, name, templateSettings) ==
    IF ~Truthy(name) \/ ~Truthy(trim(name)) THEN [s |-> s, st |-> st, result |-> FALSE]
    ELSE LET s1 == [s EXCEPT !.templates = With(@, name, templateSettings)]
         IN [s |-> s1, st |-> saveTemplates(s1, st).st, result |-> TRUE]

\* RoleplayService.saveTemplate
saveTemplate(s, st, name, templateSettings) ==
    IF ~Truthy(name) \/ ~Truthy(trim(name)) THEN [s |-> s, st |-> st, result |-> FALSE]
    ELSE IF s.templates = null THEN [s |-> s, st |-> st, result |-> Thrown]
    ELSE LET s1 == [s EXCEPT !.templates = With(@, trim(name), templateSettings)]
         IN [s |-> s1, st |-> saveTemplates(s1, st).st, result |-> TRUE]

\* deleteTemplate without saveTemplates(): the template is removed in memory only
deleteTemplateInMemory(s, st, name) ==
    IF HasTemplate(s, name)
    THEN [s |-> [s EXCEPT !.templates = Without(@, name)], st |-> st, result |-> TRUE]
    ELSE [s |-> s, st |-> st, result |-> FALSE]

\* RoleplayService.deleteTemplate
deleteTemplate(s, st, name) ==
    IF s.templates = null THEN [s |-> s, st |-> st, result |-> Thrown]
    ELSE IF HasTemplate(s, name)
    THEN LET s1 == [s EXCEPT !.templates = Without(@, name)]
         IN [s |-> s1, st |-> saveTemplates(s1, st).st, result |-> TRUE]
    ELSE [s |-> s, st |-> st, result |-> FALSE]

\* RoleplayService.generateSystemPrompt
generateSystemPrompt(s) == generateRoleplaySystemPrompt(s.settings)

\* RoleplayService.generateWelcomeMessage
svcGenerateWelcomeMessage(s) == generateWelcomeMessage(s.settings)

-----------------------------------------------------------------------------
(* The chat page.  A handler is an operator from the world w before it (the  *)
(* page's state, the service, localStorage, and asked: whether confirm() was *)
(* called) and its inputs to the world after it.  confirm() returns answer.  *)

World ==
    [messages |-> messages, roleplaySettings |-> roleplaySettings,
     showRoleplaySettings |-> showRoleplaySettings,
     service |-> service, storage |-> storage, asked |-> FALSE]

\* w after a call of the service: r is the call's [s, st, result]
After(w, r) == [w EXCEPT !.service = r.s, !.storage = r.st]

SystemMessage(content) == [role |-> "system", content |-> content]
UserMessage(content) == [role |-> "user", content |-> content]
AiMessage(content) == [role |-> "ai", content |-> content]

\* clearMessages
clearMessages(w) == [w EXCEPT !.messages = << >>]

\* startRoleplay without clearMessages(): the initial messages are put after the
\* transcript that was there
startRoleplayKeepsHistory(w) ==
    LET w1 == [w EXCEPT !.roleplaySettings = With(@, "isRoleplayMode", TRUE)]
        w2 == After(w1, saveSettings(w1.service, w1.storage, w1.roleplaySettings))
        newSystemPrompt == generateSystemPrompt(w2.service)
        welcomeMessage == svcGenerateWelcomeMessage(w2.service)
        initialMessages ==
            (IF newSystemPrompt # "" THEN <<SystemMessage(newSystemPrompt)>> ELSE << >>)
            \o (IF welcomeMessage # NoMessage THEN <<welcomeMessage>> ELSE << >>)
    IN [w2 EXCEPT !.messages = w.messages \o initialMessages,
                  !.showRoleplaySettings = FALSE]

\* startRoleplay (the same in both revisions of the page)
startRoleplay(w) ==
    LET w1 == [w EXCEPT !.roleplaySettings = With(@, "isRoleplayMode", TRUE)]
        w2 == After(w1, saveSettings(w1.service, w1.storage, w1.roleplaySettings))
        newSystemPrompt == generateSystemPrompt(w2.service)
        w3 == clearMessages(w2)
        welcomeMessage == svcGenerateWelcomeMessage(w3.service)
        initialMessages ==
            (IF newSystemPrompt # "" THEN <<SystemMessage(newSystemPrompt)>> ELSE << >>)
            \o (IF welcomeMessage # NoMessage THEN <<welcomeMessage>> ELSE << >>)
    IN [w3 EXCEPT !.messages = initialMessages, !.showRoleplaySettings = FALSE]

\* closeRoleplay asking only when the transcript holds a message of the user
closeRoleplayAsksForUserTurns(w, answer) ==
    LET ask == \E i \in 1..Len(w.messages) : w.messages[i].role = "user"
        w0 == [w EXCEPT !.asked = ask]
    IN IF ask /\ ~answer THEN w0
       ELSE LET w1 == [w0 EXCEPT !.roleplaySettings = With(@, "isRoleplayMode", FALSE)]
                w2 == After(w1, saveSettings(w1.service, w1.storage, w1.roleplaySettings))
            IN clearMessages(w2)

\* closeRoleplay (the same in both revisions of the page)
closeRoleplay(w, answer) ==
    LET ask == Len(w.messages) > 0
        w0 == [w EXCEPT !.asked = ask]
    IN IF ask /\ ~answer THEN w0
       ELSE LET w1 == [w0 EXCEPT !.roleplaySettings = With(@, "isRoleplayMode", FALSE)]
                w2 == After(w1, saveSettings(w1.service, w1.storage, w1.roleplaySettings))
            IN clearMessages(w2)

\* some message of the transcript is the user's
HasUserTurn(msgs) == \E i \in 1..Len(msgs) : msgs[i].role = "user"

\* the page's applyTemplate asking only when the transcript holds a user message
pageApplyTemplateAsksForUserTurns(w, template, answer) ==
    LET ask == w.roleplaySettings.isRoleplayMode /\ HasUserTurn(w.messages)
        w0 == [w EXCEPT !.asked = ask]
    IN IF ask /\ ~answer THEN w0
       ELSE LET r == applyTemplate(w0.service, w0.storage, template)
                w1 == After(w0, r)
            IN IF r.result.ok
               THEN LET w2 == [w1 EXCEPT !.roleplaySettings = r.result.value]
                        w3 == After(w2, saveSettings(w2.service, w2.storage, w2.roleplaySettings))
                    IN IF w3.roleplaySettings.isRoleplayMode THEN startRoleplay(w3) ELSE w3
               ELSE w1

\* the page's applyTemplate, in the revision with handleSettingsChange
pageApplyTemplate(w, template, answer) ==
    LET ask == w.roleplaySettings.isRoleplayMode /\ Len(w.messages) > 0
        w0 == [w EXCEPT !.asked = ask]
    IN IF ask /\ ~answer THEN w0
       ELSE LET r == applyTemplate(w0.service, w0.storage, template)
                w1 == After(w0, r)
            IN IF r.result.ok
               THEN LET w2 == [w1 EXCEPT !.roleplaySettings = r.result.value]
                        w3 == After(w2, saveSettings(w2.service, w2.storage, w2.roleplaySettings))
                    IN IF w3.roleplaySettings.isRoleplayMode THEN startRoleplay(w3) ELSE w3
               ELSE w1

\* handleSettingsChange
handleSettingsChange(w, newSettings) ==
    LET w1 == [w EXCEPT !.roleplaySettings = newSettings]
    IN After(w1, saveSettings(w1.service, w1.storage, w1.roleplaySettings))

-----------------------------------------------------------------------------
(* The revision of the page with the inline onSettingsChange handler *)

\* $effect(() => { roleplayService.saveSettings(roleplaySettings) }): runs after a
\* handler that assigned roleplaySettings or one of its fields
effect(before, w) ==
    IF w.roleplaySettings # before.roleplaySettings
    THEN After(w, saveSettings(w.service, w.storage, w.roleplaySettings))
    ELSE w

\* the page's applyTemplate in this revision: the result is assigned unchecked
\* and nothing is saved here
pageApplyTemplateUnsaved(w, template, answer) ==
    LET ask == w.roleplaySettings.isRoleplayMode /\ Len(w.messages) > 0
        w0 == [w EXCEPT !.asked = ask]
    IN IF ask /\ ~answer THEN w0
       ELSE LET r == applyTemplate(w0.service, w0.storage, template)
                w1 == [After(w0, r) EXCEPT !.roleplaySettings = r.result.value]
            IN IF w1.roleplaySettings.isRoleplayMode THEN startRoleplay(w1) ELSE w1

\* roleDetailsChanged comparing the avatar as well
roleDetailsChangedWithAvatar(old, new) ==
    \E k \in TemplateKeys : Get(old, k) # Get(new, k)

\* const roleDetailsChanged = ... in onSettingsChange
roleDetailsChanged(old, new) ==
    \/ Get(old, "characterName") # Get(new, "characterName")
    \/ Get(old, "characterRole") # Get(new, "characterRole")
    \/ Get(old, "sceneDescription") # Get(new, "sceneDescription")
    \/ Get(old, "scenarioDescription") # Get(new, "scenarioDescription")
    \/ Get(old, "systemPrompt") # Get(new, "systemPrompt")

\* onSettingsChange assigning roleplaySettings before confirm() is called
onSettingsChangeAssignsFirst(w, newSettings, answer) ==
    LET wasRoleplayMode == w.roleplaySettings.isRoleplayMode
        isNowRoleplayMode == newSettings.isRoleplayMode
        changed == \E k \in IdentityKeys : Get(w.roleplaySettings, k) # Get(newSettings, k)
        set == [w EXCEPT !.roleplaySettings = newSettings]
    IN IF ~wasRoleplayMode /\ isNowRoleplayMode THEN startRoleplay(set)
       ELSE IF wasRoleplayMode /\ isNowRoleplayMode /\ changed
       THEN IF Len(w.messages) > 1
            THEN IF answer THEN startRoleplay([set EXCEPT !.asked = TRUE])
                 ELSE [set EXCEPT !.asked = TRUE]
            ELSE startRoleplay(set)
       ELSE After(set, saveSettings(set.service, set.storage, set.roleplaySettings))

\* onSettingsChange calling startRoleplay() on an accepted confirm() without
\* assigning roleplaySettings
onSettingsChangeRestartsOld(w, newSettings, answer) ==
    LET wasRoleplayMode == w.roleplaySettings.isRoleplayMode
        isNowRoleplayMode == newSettings.isRoleplayMode
        changed == \E k \in IdentityKeys : Get(w.roleplaySettings, k) # Get(newSettings, k)
        set == [w EXCEPT !.roleplaySettings = newSettings]
    IN IF ~wasRoleplayMode /\ isNowRoleplayMode THEN startRoleplay(set)
       ELSE IF wasRoleplayMode /\ isNowRoleplayMode /\ changed
       THEN IF Len(w.messages) > 1
            THEN IF answer THEN startRoleplay([w EXCEPT !.asked = TRUE])
                 ELSE [w EXCEPT !.asked = TRUE]
            ELSE startRoleplay(set)
       ELSE After(set, saveSettings(set.service, set.storage, set.roleplaySettings))

\* onSettingsChange comparing newSettings with the settings localStorage holds
onSettingsChangeAgainstStored(w, newSettings, answer) ==
    LET stored == loadFromStorage(w.storage, ROLEPLAY_SETTINGS_KEY, w.roleplaySettings)
        wasRoleplayMode == w.roleplaySettings.isRoleplayMode
        isNowRoleplayMode == newSettings.isRoleplayMode
        changed == \E k \in IdentityKeys : Get(stored, k) # Get(newSettings, k)
        set == [w EXCEPT !.roleplaySettings = newSettings]
    IN IF ~wasRoleplayMode /\ isNowRoleplayMode THEN startRoleplay(set)
       ELSE IF wasRoleplayMode /\ isNowRoleplayMode /\ changed
       THEN IF Len(w.messages) > 1
            THEN IF answer THEN startRoleplay([set EXCEPT !.asked = TRUE])
                 ELSE [w EXCEPT !.asked = TRUE]
            ELSE startRoleplay(set)
       ELSE After(set, saveSettings(set.service, set.storage, set.roleplaySettings))

\* onSettingsChange={(newSettings) => { ... processSettingsChange() }}
onSettingsChange(w, newSettings, answer) ==
    LET wasRoleplayMode == w.roleplaySettings.isRoleplayMode
        isNowRoleplayMode == newSettings.isRoleplayMode
        changed == roleDetailsChanged(w.roleplaySettings, newSettings)
        set == [w EXCEPT !.roleplaySettings = newSettings]
    IN \* case 1: roleplay mode is switched on
       IF ~wasRoleplayMode /\ isNowRoleplayMode THEN startRoleplay(set)
       \* case 2: the role details change in roleplay mode
       ELSE IF wasRoleplayMode /\ isNowRoleplayMode /\ changed
       THEN IF Len(w.messages) > 1
            THEN IF answer THEN startRoleplay([set EXCEPT !.asked = TRUE])
                 ELSE [w EXCEPT !.asked = TRUE]
            ELSE startRoleplay(set)
       \* case 3: roleplay mode is switched off by an edit; case 4 and the
       \* unhandled case: the settings are assigned and saved
       ELSE After(set, saveSettings(set.service, set.storage, set.roleplaySettings))

-----------------------------------------------------------------------------
(* sendMessage and the streamed reply *)

Idle == [active |-> FALSE]

\* isModelValid = true, and neither fetchModels nor generateTemplateAI nor an
\* earlier sendMessage is in flight
NoCalls == [isModelValid |-> TRUE, fetching |-> FALSE, generating |-> FALSE, earlier |-> << >>]

ErrorContent == "Error: stream failed"

\* historyMessages sending the transcript as it is stored
historyMessagesAsStored(w, msgs) == msgs

\* historyMessages of sendMessage: the transcript with the user's message, and in
\* roleplay mode its system messages replaced by the prompt generated now
historyMessages(w, msgs) ==
    IF w.roleplaySettings.isRoleplayMode
    THEN LET currentSystemPrompt == generateSystemPrompt(w.service)
             kept == SelectSeq(msgs, LAMBDA m : m.role # "system")
         IN IF currentSystemPrompt # ""
            THEN <<SystemMessage(currentSystemPrompt)>> \o kept
            ELSE kept
    ELSE msgs

\* sendMessage up to its first await: the user's message is appended, the request
\* is assembled, the empty AI message is appended and the stream is opened.
\* The result holds the new transcript and the stream in flight.
sendMessage(w, currentInput) ==
    LET withUser == Append(w.messages, UserMessage(currentInput))
        request == historyMessages(w, withUser)
        withAi == Append(withUser, AiMessage(""))
    IN [messages |-> withAi,
        stream |-> [active |-> TRUE, aiMessageIndex |-> Len(withAi),
                    request |-> request, chunks |-> 0]]

-----------------------------------------------------------------------------
(* Inputs *)

\* the two values an edit may give each key
Val(k, i) ==
    CASE k = "characterName" -> IF i = 0 THEN "" ELSE "Nova-7"
      [] k = "characterRole" -> IF i = 0 THEN "" ELSE "starship AI"
      [] k = "sceneDescription" -> IF i = 0 THEN "" ELSE "space station Alpha-9"
      [] k = "scenarioDescription" -> IF i = 0 THEN "" ELSE "gravity waves disturb the station"
      [] k = "systemPrompt" -> IF i = 0 THEN "" ELSE "use science fiction terms"
      [] k = "avatarBase64" -> IF i = 0 THEN undefined ELSE "data:image/png;base64,AAAA"
      [] OTHER -> i = 1

\* updateSetting(key, value) of the settings component: { ...settings, [key]: value }
updateSetting(settings, k, i) == With(settings, k, Val(k, i))

\* every edit of one key
Edits(settings) == {updateSetting(settings, k, i) : k \in SettingsKeys, i \in {0, 1}}

\* the keys the explored behaviours edit; the other fields vary through the
\* templates and the stored settings, and the claims are stated for Edits
EditedKeys == {"characterName", "avatarBase64", "isRoleplayMode"}
ExploredEdits(settings) == {updateSetting(settings, k, i) : k \in EditedKeys, i \in {0, 1}}

\* what localStorage may hold when the page is opened: nothing, or the settings
\* and the template collection an earlier session saved
StoredSettings ==
    {NoItem, Item(JsonObject([defaultSettings EXCEPT !.characterName = "Nova-7",
                                                     !.isRoleplayMode = TRUE]))}
StoredTemplates == {Item(JsonCollection([n \in {"Sci-Fi"} |-> DEFAULT_TEMPLATES[n]]))}

TemplateInputs == {"Sci-Fi", "Unknown"}
UserInputs == {"hello"}

\* some identity field of the two settings differs
IdentityDiffers(old, new) == \E k \in IdentityKeys : Get(old, k) # Get(new, k)

\* the transcript holds a system message
HasSystem(msgs) == \E i \in 1..Len(msgs) : msgs[i].role = "system"

\* the transcript holds a message of the user
HasUser(msgs) == \E i \in 1..Len(msgs) : msgs[i].role = "user"

\* What is recorded of the last event: the handler (op), what confirm() returned
\* in it (none when it was not called), roleplay mode before the event (was) and
\* in the settings the event carried (now), whether those settings differ from
\* the page's in an identity field (changed), whether the transcript held a user
\* message before the event (users), and, when this event and the one before it
\* are both settings changes, what confirm() returned in the one before (prev).
NoEvent ==
    [op |-> "none", confirm |-> "none", was |-> FALSE, now |-> FALSE,
     changed |-> FALSE, users |-> FALSE, prev |-> "none"]

Confirm(w, answer) == IF ~w.asked THEN "none" ELSE IF answer THEN "accepted" ELSE "declined"

\* the record of an event op that carried newSettings and left the world w
Event(op, newSettings, w, answer) ==
    [op |-> op, confirm |-> Confirm(w, answer),
     was |-> roleplaySettings.isRoleplayMode, now |-> newSettings.isRoleplayMode,
     changed |-> IdentityDiffers(roleplaySettings, newSettings),
     users |-> HasUser(messages),
     prev |-> IF op = "onSettingsChange" /\ ev.op = op THEN ev.confirm ELSE "none"]

\* the caller holds no object of the service
NoHandle == [kind |-> "none"]

\* the record of an event without confirm() and without settings
Plain(op) == [NoEvent EXCEPT !.op = op]

-----------------------------------------------------------------------------
(* The state machine *)

\* the world a handler leaves becomes the state
Commit(w) ==
    /\ messages' = w.messages
    /\ roleplaySettings' = w.roleplaySettings
    /\ showRoleplaySettings' = w.showRoleplaySettings
    /\ service' = w.service
    /\ storage' = w.storage

\* the page is mounted: the service is constructed over what localStorage holds and
\* roleplaySettings is initialised from loadSettings(); in the inline revision the
\* $effect runs once on mount
InitPage(p, st) ==
    LET c == constructor(st)
        l == loadSettings(c.s, c.st)
        w0 == [messages |-> << >>, roleplaySettings |-> l.result,
               showRoleplaySettings |-> FALSE, service |-> l.s, storage |-> l.st,
               asked |-> FALSE]
        w == IF p = "inline"
             THEN After(w0, saveSettings(w0.service, w0.storage, w0.roleplaySettings))
             ELSE w0
    IN /\ page = p
       /\ messages = w.messages
       /\ roleplaySettings = w.roleplaySettings
       /\ showRoleplaySettings = w.showRoleplaySettings
       /\ service = w.service
       /\ storage = w.storage
       /\ loading = FALSE
       /\ stream = Idle
       /\ calls = NoCalls
       /\ ev = NoEvent
       /\ held = NoHandle

InitStorage(ss, ts) ==
    [k \in {ROLEPLAY_SETTINGS_KEY, ROLEPLAY_TEMPLATES_KEY} |->
        IF k = ROLEPLAY_SETTINGS_KEY THEN ss ELSE ts]

InitInline ==
    \E ss \in StoredSettings, ts \in StoredTemplates : InitPage("inline", InitStorage(ss, ts))

InitDirect ==
    \E ss \in StoredSettings, ts \in StoredTemplates : InitPage("direct", InitStorage(ss, ts))

\* the gear button
ToggleRoleplaySettings ==
    /\ showRoleplaySettings' = ~showRoleplaySettings
    /\ ev' = Plain("toggle")
    /\ UNCHANGED <<messages, roleplaySettings, loading, stream, calls, service, storage, page, held>>

\* an edit in the settings panel of the inline revision
OnSettingsChange ==
    /\ page = "inline"
    /\ showRoleplaySettings
    /\ \E newSettings \in ExploredEdits(roleplaySettings), answer \in BOOLEAN :
        LET w == effect(World, onSettingsChange(World, newSettings, answer))
        IN /\ Commit(w)
           /\ ev' = Event("onSettingsChange", newSettings, w, answer)
    /\ UNCHANGED <<loading, stream, calls, page, held>>

\* an edit in the settings panel of the direct revision
HandleSettingsChange ==
    /\ page = "direct"
    /\ showRoleplaySettings
    /\ \E newSettings \in ExploredEdits(roleplaySettings) :
        /\ Commit(handleSettingsChange(World, newSettings))
        /\ ev' = Event("handleSettingsChange", newSettings, World, FALSE)
    /\ UNCHANGED <<loading, stream, calls, page, held>>

\* the start button of the settings panel
StartRoleplay ==
    /\ showRoleplaySettings
    /\ calls.isModelValid
    /\ Commit(IF page = "inline" THEN effect(World, startRoleplay(World)) ELSE startRoleplay(World))
    /\ ev' = Plain("startRoleplay")
    /\ UNCHANGED <<loading, stream, calls, page, held>>

\* the close button of the settings panel
CloseRoleplay ==
    /\ showRoleplaySettings
    /\ \E answer \in BOOLEAN :
        LET c == closeRoleplay(World, answer)
            w == IF page = "inline" THEN effect(World, c) ELSE c
        IN /\ Commit(w)
           /\ ev' = [Plain("closeRoleplay") EXCEPT !.confirm = Confirm(w, answer)]
    /\ UNCHANGED <<loading, stream, calls, page, held>>

\* a template chosen in the settings panel; the inline revision's panel offers
\* only names the store holds
ApplyTemplate ==
    /\ showRoleplaySettings
    /\ \E template \in TemplateInputs, answer \in BOOLEAN :
        /\ page = "inline" => template \in getTemplateNames(service)
        /\ LET w == IF page = "inline"
                    THEN effect(World, pageApplyTemplateUnsaved(World, template, answer))
                    ELSE pageApplyTemplate(World, template, answer)
           IN /\ Commit(w)
              /\ ev' = [Plain("applyTemplate") EXCEPT !.confirm = Confirm(w, answer)]
    /\ UNCHANGED <<loading, stream, calls, page, held>>

\* the send button: if (!userInput.trim() || loading || !isModelValid) return.
\* A call that passes the guard while an earlier call still reads its stream
\* runs beside it.
SendMessage ==
    /\ ~loading
    /\ calls.isModelValid
    /\ Len(messages) + 2 <= MaxMsgs
    /\ Len(calls.earlier) + 1 < MaxStreams
    /\ \E currentInput \in UserInputs :
        LET r == sendMessage(World, currentInput)
        IN /\ messages' = r.messages
           /\ stream' = r.stream
           /\ loading' = TRUE
           /\ ev' = Plain("sendMessage")
    /\ calls' = IF stream.active THEN [calls EXCEPT !.earlier = Append(@, stream)] ELSE calls
    /\ UNCHANGED <<roleplaySettings, showRoleplaySettings, service, storage, page, held>>

\* for await (const chunk of stream): the chunk is appended to
\* messages[aiMessageIndex]; when the transcript no longer has that index the
\* assignment throws and the catch block appends the error as a new AI message
StreamChunk ==
    /\ stream.active
    /\ stream.chunks < MaxChunks
    /\ IF stream.aiMessageIndex <= Len(messages)
       THEN /\ messages' = [messages EXCEPT ![stream.aiMessageIndex].content = @ \o "chunk"]
            /\ stream' = [stream EXCEPT !.chunks = @ + 1]
            /\ loading' = loading
       ELSE /\ messages' = Append(messages, AiMessage(ErrorContent))
            /\ stream' = Idle
            /\ loading' = FALSE
    /\ ev' = Plain("chunk")
    /\ UNCHANGED <<roleplaySettings, showRoleplaySettings, calls, service, storage, page, held>>

\* the stream ends: finally { loading = false }
StreamEnd ==
    /\ stream.active
    /\ stream' = Idle
    /\ loading' = FALSE
    /\ ev' = Plain("streamEnd")
    /\ UNCHANGED <<messages, roleplaySettings, showRoleplaySettings, calls, service, storage, page, held>>

\* the stream throws: the catch block puts the error in messages[aiMessageIndex],
\* or appends it when the transcript no longer has that index
StreamError ==
    /\ stream.active
    /\ messages' = IF stream.aiMessageIndex <= Len(messages)
                   THEN [messages EXCEPT ![stream.aiMessageIndex].content = ErrorContent]
                   ELSE Append(messages, AiMessage(ErrorContent))
    /\ stream' = Idle
    /\ loading' = FALSE
    /\ ev' = Plain("streamError")
    /\ UNCHANGED <<roleplaySettings, showRoleplaySettings, calls, service, storage, page, held>>

NextInline ==
    \/ ToggleRoleplaySettings
    \/ OnSettingsChange
    \/ StartRoleplay
    \/ CloseRoleplay
    \/ ApplyTemplate
    \/ SendMessage
    \/ StreamChunk
    \/ StreamEnd
    \/ StreamError

NextDirect ==
    \/ ToggleRoleplaySettings
    \/ HandleSettingsChange
    \/ StartRoleplay
    \/ CloseRoleplay
    \/ ApplyTemplate
    \/ SendMessage
    \/ StreamChunk
    \/ StreamEnd
    \/ StreamError

\* the page with the inline onSettingsChange handler
SpecInline == InitInline /\ [][NextInline]_vars

\* the page with handleSettingsChange
SpecDirect == InitDirect /\ [][NextDirect]_vars

-----------------------------------------------------------------------------
(* What the claims speak of *)

\* the settings localStorage holds, field by field equal to settings
PersistedAs(st, settings) ==
    /\ st[ROLEPLAY_SETTINGS_KEY].kind = "json"
    /\ \A k \in TemplateKeys : Get(st[ROLEPLAY_SETTINGS_KEY].value, k) = Get(settings, k)
    /\ "isRoleplayMode" \in DOMAIN st[ROLEPLAY_SETTINGS_KEY].value
    /\ st[ROLEPLAY_SETTINGS_KEY].value.isRoleplayMode = settings.isRoleplayMode

\* the settings the service holds in memory, field by field equal to settings
HeldAs(s, settings) ==
    /\ \A k \in TemplateKeys : Get(s.settings, k) = Get(settings, k)
    /\ s.settings.isRoleplayMode = settings.isRoleplayMode

\* [system?, welcome?] generated from settings
FreshTranscript(settings) ==
    (IF generateRoleplaySystemPrompt(settings) # ""
     THEN <<SystemMessage(generateRoleplaySystemPrompt(settings))>> ELSE << >>)
    \o (IF generateWelcomeMessage(settings) # NoMessage
        THEN <<generateWelcomeMessage(settings)>> ELSE << >>)

\* the inline handler followed by the $effect, as the page runs them
Handled(newSettings, answer) == effect(World, onSettingsChange(World, newSettings, answer))

\* roleplay mode is on in the page's settings and in the edit, and the edit
\* changes an identity field
IdentityEdit(newSettings) ==
    /\ roleplaySettings.isRoleplayMode
    /\ newSettings.isRoleplayMode
    /\ IdentityDiffers(roleplaySettings, newSettings)

\* C1: in the inline handler, an identity edit in roleplay mode on a transcript
\* with a user message calls confirm() whatever the answer will be, and when the
\* answer is no, the page's settings, the service's settings, localStorage and
\* the transcript are what they were before the event.
C1_DeclineLeavesAllUntouched ==
    page = "inline" =>
        \A newSettings \in Edits(roleplaySettings) :
            IdentityEdit(newSettings) /\ HasUser(messages) =>
                LET declined == Handled(newSettings, FALSE)
                IN /\ Handled(newSettings, TRUE).asked
                   /\ declined.asked
                   /\ declined.roleplaySettings = roleplaySettings
                   /\ declined.service = service
                   /\ declined.storage = storage
                   /\ declined.messages = messages

\* an identity edit on a transcript with a user message has been declined
C1_Witness ==
    /\ ev.op = "onSettingsChange" /\ ev.confirm = "declined"
    /\ ev.was /\ ev.now /\ ev.changed /\ ev.users
    /\ roleplaySettings.isRoleplayMode /\ HasUser(messages)

\* C2: when nothing is in flight and roleplay mode is persisted as on, a system
\* message of the transcript is the prompt generated from the persisted
\* settings: no identity edit is persisted without the transcript being reset.
C2_NoPersistWithoutReset ==
    (~stream.active /\ storage[ROLEPLAY_SETTINGS_KEY].kind = "json"
        /\ storage[ROLEPLAY_SETTINGS_KEY].value.isRoleplayMode) =>
        \A i \in 1..Len(messages) :
            messages[i].role = "system" =>
                messages[i].content =
                    generateRoleplaySystemPrompt(storage[ROLEPLAY_SETTINGS_KEY].value)

\* C3: in the inline handler, an identity edit in roleplay mode on a transcript
\* without a user message and with at most the system and the welcome message
\* is applied, and the transcript reset, without confirm() being called.
C3_ActiveEmptyNeedsNoConfirm ==
    page = "inline" =>
        \A newSettings \in Edits(roleplaySettings), answer \in BOOLEAN :
            (IdentityEdit(newSettings) /\ ~HasUser(messages) /\ Len(messages) <= 2) =>
                /\ ~Handled(newSettings, answer).asked
                /\ Handled(newSettings, answer).messages = FreshTranscript(newSettings)
                /\ PersistedAs(Handled(newSettings, answer).storage, newSettings)

\* C4: in the inline handler, an edit that switches roleplay mode on never calls
\* confirm(); after it the edit is persisted with isRoleplayMode true, the
\* transcript is exactly [system?, welcome?] of the edit, and the panel is closed.
C4_EnableResetsWithoutConfirm ==
    page = "inline" =>
        \A newSettings \in Edits(roleplaySettings), answer \in BOOLEAN :
            (~roleplaySettings.isRoleplayMode /\ newSettings.isRoleplayMode) =>
                LET after == Handled(newSettings, answer)
                IN /\ ~after.asked
                   /\ PersistedAs(after.storage, newSettings)
                   /\ after.messages = FreshTranscript(newSettings)
                   /\ ~after.showRoleplaySettings

\* roleplay mode has been switched on by an edit over a transcript that held a
\* user message
C4_Witness ==
    /\ ev.op = "onSettingsChange" /\ ~ev.was /\ ev.now /\ ev.users
    /\ ev.confirm = "none"
    /\ messages = FreshTranscript(roleplaySettings)
    /\ Len(messages) = 2 /\ messages[1].role = "system"
    /\ ~showRoleplaySettings

\* C5: in the inline handler, when confirm() is accepted for an identity edit on
\* a transcript with a user message, the transcript is exactly [system?,
\* welcome?] of the edit, and localStorage and the service hold the edit.
C5_AcceptResetsAndPersists ==
    page = "inline" =>
        \A newSettings \in Edits(roleplaySettings) :
            IdentityEdit(newSettings) /\ HasUser(messages) =>
                LET accepted == Handled(newSettings, TRUE)
                IN /\ accepted.messages = FreshTranscript(newSettings)
                   /\ ~HasUser(accepted.messages)
                   /\ PersistedAs(accepted.storage, newSettings)
                   /\ HeldAs(accepted.service, newSettings)

\* an identity edit on a transcript with a user message has been accepted
C5_Witness ==
    /\ ev.op = "onSettingsChange" /\ ev.confirm = "accepted"
    /\ ev.was /\ ev.now /\ ev.changed /\ ev.users
    /\ messages = FreshTranscript(roleplaySettings) /\ Len(messages) = 2
    /\ PersistedAs(storage, roleplaySettings)

\* C6: in either revision's handler, an edit in roleplay mode that changes no
\* identity field calls no confirm(), leaves the transcript as it was and
\* persists the edit, avatar included.
C6_NonIdentityEditKeepsTranscript ==
    \A newSettings \in Edits(roleplaySettings), answer \in BOOLEAN :
        (roleplaySettings.isRoleplayMode /\ newSettings.isRoleplayMode
            /\ ~IdentityDiffers(roleplaySettings, newSettings)) =>
            LET inline == Handled(newSettings, answer)
                direct == handleSettingsChange(World, newSettings)
            IN /\ ~inline.asked
               /\ inline.messages = messages
               /\ PersistedAs(inline.storage, newSettings)
               /\ direct.messages = messages
               /\ PersistedAs(direct.storage, newSettings)

\* an avatar has been set by an edit in roleplay mode over a transcript with a
\* user message, which is still there
C6_Witness ==
    /\ ev.op = "onSettingsChange" /\ ev.was /\ ev.now /\ ~ev.changed /\ ev.users
    /\ ev.confirm = "none"
    /\ HasUser(messages)
    /\ Get(roleplaySettings, "avatarBase64") = Val("avatarBase64", 1)
    /\ PersistedAs(storage, roleplaySettings)

\* C7: in either revision, closeRoleplay calls confirm() exactly when the
\* transcript is not empty; when it is accepted or the transcript is empty,
\* isRoleplayMode false is persisted and the transcript is empty; when it is
\* declined, the page's settings, localStorage and the transcript are unchanged.
C7_CloseConfirmsOnNonEmpty ==
    \A answer \in BOOLEAN :
        LET direct == closeRoleplay(World, answer)
            inline == effect(World, direct)
        IN /\ direct.asked <=> Len(messages) > 0
           /\ inline.asked <=> Len(messages) > 0
           /\ (answer \/ Len(messages) = 0) =>
                /\ PersistedAs(direct.storage, With(roleplaySettings, "isRoleplayMode", FALSE))
                /\ PersistedAs(inline.storage, With(roleplaySettings, "isRoleplayMode", FALSE))
                /\ direct.messages = << >>
                /\ inline.messages = << >>
           /\ (~answer /\ Len(messages) > 0) =>
                /\ direct.roleplaySettings = roleplaySettings
                /\ direct.storage = storage
                /\ direct.messages = messages
                /\ inline.roleplaySettings = roleplaySettings
                /\ inline.storage = storage
                /\ inline.messages = messages

\* roleplay has been closed over a transcript that was not empty, after
\* confirm() was accepted
C7_Witness ==
    /\ ev.op = "closeRoleplay" /\ ev.confirm = "accepted"
    /\ messages = << >>
    /\ ~roleplaySettings.isRoleplayMode
    /\ PersistedAs(storage, roleplaySettings)

\* localStorage with the settings key already holding the edit, as when another
\* writer has been at it
OtherStorage(newSettings) ==
    {saveToStorage(storage, ROLEPLAY_SETTINGS_KEY, newSettings)}

\* C8: in the inline handler, confirm() is called exactly when roleplay mode is
\* on in the page's settings and in the edit, the edit differs in an identity
\* field from the page's settings, and the transcript is longer than one; the
\* page's settings after the event are the edit's when it was applied and the
\* ones before when it was declined, so the next event is compared with those;
\* and what localStorage holds changes nothing of this.
C8_BaselineIsInMemory ==
    page = "inline" =>
        \A newSettings \in Edits(roleplaySettings), answer \in BOOLEAN :
            LET r == onSettingsChange(World, newSettings, answer)
                applied == effect(World, r).roleplaySettings
            IN /\ r.asked <=> (IdentityEdit(newSettings) /\ Len(messages) > 1)
               /\ \A k \in IdentityKeys :
                    Get(applied, k) = IF r.asked /\ ~answer
                                      THEN Get(roleplaySettings, k) ELSE Get(newSettings, k)
               /\ \A st \in OtherStorage(newSettings) :
                    LET other == onSettingsChange([World EXCEPT !.storage = st],
                                                  newSettings, answer)
                    IN /\ other.asked = r.asked
                       /\ other.roleplaySettings = r.roleplaySettings

\* an identity edit has been accepted right after one was declined
C8_Witness ==
    /\ ev.op = "onSettingsChange" /\ ev.prev = "declined" /\ ev.confirm = "accepted"
    /\ ev.changed
    /\ PersistedAs(storage, roleplaySettings)

\* C9: the request sendMessage assembles in roleplay mode has one system
\* message, the first, and it is the prompt generated from the settings
\* localStorage holds, which are those of the last saveSettings; the transcript's
\* own system message is not sent.
C9_RequestCarriesCurrentPrompt ==
    (ev.op = "sendMessage" /\ roleplaySettings.isRoleplayMode) =>
        /\ stream.active
        /\ storage[ROLEPLAY_SETTINGS_KEY].kind = "json"
        /\ Len(stream.request) >= 1
        /\ stream.request[1] =
            SystemMessage(generateRoleplaySystemPrompt(storage[ROLEPLAY_SETTINGS_KEY].value))
        /\ \A i \in 2..Len(stream.request) : stream.request[i].role # "system"

\* a request has been sent whose system message is not the one the transcript holds
C9_Witness ==
    /\ ev.op = "sendMessage" /\ roleplaySettings.isRoleplayMode /\ stream.active
    /\ Len(messages) > 0 /\ messages[1].role = "system"
    /\ stream.request[1].role = "system"
    /\ stream.request[1].content # messages[1].content

-----------------------------------------------------------------------------
(* The service on its own: its operations called in any order over one       *)
(* localStorage, and the service constructed anew over what was stored.      *)

\* what the templates key may hold when the service is first constructed
ServiceStoredTemplates ==
    {NoItem, Item(JsonCollection([n \in {"Sci-Fi"} |-> DEFAULT_TEMPLATES[n]]))}

\* the names a caller may give saveTemplate and deleteTemplate
TemplateNames == {"", "  ", " Custom ", "Sci-Fi"}

\* the names a caller may ask to delete besides those: one that is no template
\* and no property of an object, one that is an inherited property
OtherNames == {"nonexistent"} \cup ObjectPrototype

\* the templates a caller may save: one without an avatar, one with
TemplateValues ==
    {DEFAULT_TEMPLATES["Detective"],
     [DEFAULT_TEMPLATES["Detective"] EXCEPT !.avatarBase64 = Val("avatarBase64", 1)]}

InitService ==
    \E ss \in StoredSettings, ts \in ServiceStoredTemplates :
        LET c == constructor(InitStorage(ss, ts))
        IN /\ page = "service"
           /\ service = c.s
           /\ storage = c.st
           /\ roleplaySettings = deepClone(c.s.settings)
           /\ messages = << >>
           /\ showRoleplaySettings = FALSE
           /\ loading = FALSE
           /\ stream = Idle
           /\ calls = NoCalls
           /\ ev = NoEvent
           /\ held = NoHandle

\* r, the [s, st, result] of a call of the service, becomes the state
Called(r) ==
    /\ service' = r.s
    /\ storage' = r.st
    /\ UNCHANGED <<messages, roleplaySettings, showRoleplaySettings, loading, stream, calls, page, held>>

SvcLoadSettings ==
    /\ Called(loadSettings(service, storage))
    /\ ev' = Plain("loadSettings")

SvcSaveSettings ==
    /\ \E settings \in ExploredEdits(service.settings) :
        Called(saveSettings(service, storage, settings))
    /\ ev' = Plain("saveSettings")

SvcApplyTemplate ==
    /\ \E name \in TemplateNames \cup OtherNames :
        Called(applyTemplate(service, storage, name))
    /\ ev' = Plain("applyTemplate")

SvcSaveTemplate ==
    /\ \E name \in TemplateNames, t \in TemplateValues :
        Called(saveTemplate(service, storage, name, t))
    /\ ev' = Plain("saveTemplate")

SvcDeleteTemplate ==
    /\ \E name \in TemplateNames \cup OtherNames \cup getTemplateNames(service) :
        Called(deleteTemplate(service, storage, name))
    /\ ev' = Plain("deleteTemplate")

\* the page is loaded again: a new service over the same localStorage
SvcRestart ==
    /\ Called(constructor(storage))
    /\ ev' = Plain("constructor")

NextService ==
    \/ SvcLoadSettings
    \/ SvcSaveSettings
    \/ SvcApplyTemplate
    \/ SvcSaveTemplate
    \/ SvcDeleteTemplate
    \/ SvcRestart

SpecService == InitService /\ [][NextService]_vars

\* C10: for every template the service holds, applyTemplate gives settings with
\* isRoleplayMode as before the call and with the five identity fields and the
\* avatar equal to the template's: without an avatar when the template has none.
C10_ApplyTemplateTakesAllOfTemplate ==
    page = "service" =>
        \A name \in getTemplateNames(service) :
            LET applied == applyTemplate(service, storage, name).result.value
            IN /\ applied.isRoleplayMode = service.settings.isRoleplayMode
               /\ \A k \in TemplateKeys :
                    Get(applied, k) = Get(service.templates[name], k)

-----------------------------------------------------------------------------
(* The first revision of the service (lib/services/RoleplayService.ts): it   *)
(* holds settings only, reads and writes localStorage itself, and its        *)
(* templates are the cases of a switch.  The service is [settings |-> ...].  *)

\* the settings the constructor starts from: no avatar in this revision
legacyDefaults ==
    [characterName |-> "AI Assistant", characterRole |-> "", sceneDescription |-> "",
     scenarioDescription |-> "", systemPrompt |-> "", isRoleplayMode |-> FALSE]

\* parsed.k || current.k for a string field
OrElse(parsed, current, k) ==
    IF Truthy(Get(parsed, k)) THEN parsed[k] ELSE current[k]

\* RoleplayService.loadSettings: every field is stored || this.settings, and
\* this.settings itself is returned
legacyLoadSettings(s, st) ==
    IF st[ROLEPLAY_SETTINGS_KEY].kind = "absent" THEN [s |-> s, st |-> st, result |-> s.settings]
    ELSE LET parsedSettings == st[ROLEPLAY_SETTINGS_KEY].value
             merged ==
                 [k \in DOMAIN legacyDefaults |->
                     IF k = "isRoleplayMode"
                     THEN (k \in DOMAIN parsedSettings /\ parsedSettings[k]) \/ s.settings[k]
                     ELSE OrElse(parsedSettings, s.settings, k)]
         IN [s |-> [s EXCEPT !.settings = merged], st |-> st, result |-> merged]

\* RoleplayService.saveSettings
legacySaveSettings(s, st, settings) ==
    [s |-> [s EXCEPT !.settings = settings],
     st |-> [st EXCEPT ![ROLEPLAY_SETTINGS_KEY] = Item(JsonObject(settings))],
     result |-> undefined]

\* new RoleplayService()
legacyConstructor(st) == legacyLoadSettings([settings |-> legacyDefaults], st)

\* the cases of the switch in applyTemplate, with the fields each assigns
legacyTemplates ==
    [n \in {"detective", "fantasy-adventure", "historical", "sci-fi"} |->
        LET t == DEFAULT_TEMPLATES[CASE n = "detective" -> "Detective"
                                     [] n = "fantasy-adventure" -> "Fantasy Adventure"
                                     [] n = "historical" -> "History"
                                     [] OTHER -> "Sci-Fi"]
        IN [k \in IdentityKeys |-> t[k]]]

\* RoleplayService.applyTemplate: a name that is no case of the switch changes
\* no field; the settings are saved and returned whatever the name
legacyApplyTemplate(s, st, template) ==
    LET applied == IF template \in DOMAIN legacyTemplates
                   THEN Spread(s.settings, legacyTemplates[template])
                   ELSE s.settings
        saved == legacySaveSettings([s EXCEPT !.settings = applied], st, applied)
    IN [s |-> saved.s, st |-> saved.st, result |-> [ok |-> TRUE, value |-> applied]]

\* the names a caller may give applyTemplate
LegacyTemplateInputs == DOMAIN legacyTemplates \cup {"nonexistent"}

\* the settings a caller may save: the current ones with one field changed
LegacyEdits(settings) ==
    {updateSetting(settings, k, i) :
        k \in {"characterName", "characterRole", "isRoleplayMode"}, i \in {0, 1}}

\* what the settings key may hold when the service is first constructed
LegacyStoredSettings ==
    {NoItem, Item([legacyDefaults EXCEPT !.characterName = "Nova-7", !.isRoleplayMode = TRUE])}

InitLegacy ==
    \E ss \in LegacyStoredSettings :
        LET c == legacyConstructor(InitStorage(ss, NoItem))
        IN /\ page = "legacy"
           /\ service = c.s
           /\ storage = c.st
           /\ roleplaySettings = c.result
           /\ messages = << >>
           /\ showRoleplaySettings = FALSE
           /\ loading = FALSE
           /\ stream = Idle
           /\ calls = NoCalls
           /\ ev = NoEvent
           /\ held = NoHandle

LegacyLoadSettings ==
    /\ Called(legacyLoadSettings(service, storage))
    /\ ev' = Plain("loadSettings")

LegacySaveSettings ==
    /\ \E settings \in LegacyEdits(service.settings) :
        Called(legacySaveSettings(service, storage, settings))
    /\ ev' = Plain("saveSettings")

LegacyApplyTemplate ==
    /\ \E template \in LegacyTemplateInputs :
        Called(legacyApplyTemplate(service, storage, template))
    /\ ev' = Plain("applyTemplate")

\* the page is loaded again: a new service over the same localStorage
LegacyRestart ==
    /\ Called(legacyConstructor(storage))
    /\ ev' = Plain("constructor")

NextLegacy ==
    \/ LegacyLoadSettings
    \/ LegacySaveSettings
    \/ LegacyApplyTemplate
    \/ LegacyRestart

SpecLegacy == InitLegacy /\ [][NextLegacy]_vars

-----------------------------------------------------------------------------
(* Claims on the service *)

\* C11: applyTemplate with a name that is no template gives the not-found
\* result and leaves the service's settings, localStorage and the templates as
\* they were, in the latest revision of the service and in the first.
C11_UnknownTemplateChangesNothing ==
    /\ page = "service" =>
        \A name \in (TemplateNames \cup {"nonexistent"}) \ getTemplateNames(service) :
            LET r == applyTemplate(service, storage, name)
            IN ~r.result.ok /\ r.s = service /\ r.st = storage
    /\ page = "legacy" =>
        \A name \in LegacyTemplateInputs \ DOMAIN legacyTemplates :
            LET r == legacyApplyTemplate(service, storage, name)
            IN ~r.result.ok /\ r.s = service /\ r.st = storage

\* settings with every string field filled and an avatar, in either mode
FullSettings ==
    {[isRoleplayMode |-> m, avatarBase64 |-> Val("avatarBase64", 1)] @@
        [k \in IdentityKeys |-> DEFAULT_TEMPLATES[n][k]] :
        m \in BOOLEAN, n \in {"Sci-Fi", "Detective"}}

\* a and b agree on every field of the settings
SameSettings(a, b) ==
    /\ \A k \in TemplateKeys : Get(a, k) = Get(b, k)
    /\ a.isRoleplayMode = b.isRoleplayMode

\* C12: for every fully populated s, saveSettings(s) followed by loadSettings(),
\* on the same service or on one constructed afterwards over the same
\* localStorage, returns settings equal to s in every field, and the service
\* holds settings equal to s.
C12_SaveLoadRoundTrip ==
    page = "service" =>
        \A s \in FullSettings :
            LET saved == saveSettings(service, storage, s)
                same == loadSettings(saved.s, saved.st)
                fresh == constructor(saved.st)
                again == loadSettings(fresh.s, fresh.st)
            IN /\ SameSettings(same.result, s)
               /\ SameSettings(same.s.settings, s)
               /\ SameSettings(fresh.s.settings, s)
               /\ SameSettings(again.result, s)
               /\ SameSettings(again.s.settings, s)

\* fully populated settings have been saved and then loaded
C12_Witness ==
    /\ page = "service" /\ ev.op = "loadSettings"
    /\ \E s \in FullSettings : SameSettings(service.settings, s)
    /\ PersistedAs(storage, service.settings)

\* C13: after saveSettings with characterName the empty string, a service
\* constructed afterwards over the same localStorage loads characterName as the
\* empty string, not as the default name; in the latest revision of the service
\* and in the first.
C13_EmptyNameSurvivesReload ==
    /\ page = "service" =>
        LET saved == saveSettings(service, storage, With(service.settings, "characterName", ""))
            fresh == constructor(saved.st)
        IN /\ loadSettings(fresh.s, fresh.st).result.characterName = ""
           /\ fresh.s.settings.characterName = ""
    /\ page = "legacy" =>
        LET saved == legacySaveSettings(service, storage,
                                        With(service.settings, "characterName", ""))
            fresh == legacyConstructor(saved.st)
        IN /\ legacyLoadSettings(fresh.s, fresh.st).result.characterName = ""
           /\ fresh.s.settings.characterName = ""

-----------------------------------------------------------------------------
(* The second revision of the service (the later half of part_006), where it *)
(* differs from the latest in what the claims below speak of.                *)

\* RoleplayService.initializeDefaultTemplates: a copy of the built-in
\* collection, saved at once
initializeDefaultTemplates(s, st) ==
    LET s1 == [s EXCEPT !.templates = DEFAULT_TEMPLATES]
    IN [s |-> s1, st |-> saveTemplates(s1, st).st, result |-> undefined]

\* RoleplayService.loadTemplates of that revision
olderLoadTemplates(s, st) ==
    IF st[ROLEPLAY_TEMPLATES_KEY].kind = "absent"
    THEN initializeDefaultTemplates(s, st)
    ELSE [s |-> [s EXCEPT !.templates = st[ROLEPLAY_TEMPLATES_KEY].value],
          st |-> st, result |-> undefined]

\* RoleplayService.getTemplate of the revision before: a copy by spread, which
\* keeps a key whose value is undefined and is {} for an inherited function
olderGetTemplate(s, name) ==
    IF name \in DOMAIN s.templates
    THEN [found |-> TRUE, value |-> s.templates[name], shared |-> FALSE]
    ELSE IF HasTemplate(s, name)
    THEN [found |-> TRUE, value |-> [k \in {} |-> ""], shared |-> FALSE]
    ELSE NoTemplate

\* C14: when localStorage holds no template collection, the service constructed
\* over it has exactly the four built-in names and has written the collection to
\* localStorage during that load, so that the next load reads what is stored; in
\* the latest revision of the service and in the one before.
C14_SeedIsPersistedOnFirstLoad ==
    (page = "service" /\ storage[ROLEPLAY_TEMPLATES_KEY].kind = "absent") =>
        LET latest == constructor(storage)
            older == olderLoadTemplates(service, storage)
        IN /\ getTemplateNames(latest.s) = DOMAIN DEFAULT_TEMPLATES
           /\ latest.st[ROLEPLAY_TEMPLATES_KEY].kind = "json"
           /\ getTemplateNames(older.s) = DOMAIN DEFAULT_TEMPLATES
           /\ older.st[ROLEPLAY_TEMPLATES_KEY].kind = "json"

\* C15: the built-in templates are seeded only when localStorage holds no
\* collection: a service constructed over a stored collection has exactly the
\* stored names, and after a template is deleted, the last one too, a service
\* constructed over the same localStorage has exactly the names that remained.
C15_DeletedTemplatesStayDeleted ==
    page = "service" =>
        /\ storage[ROLEPLAY_TEMPLATES_KEY].kind = "json" =>
            getTemplateNames(constructor(storage).s) =
                DOMAIN storage[ROLEPLAY_TEMPLATES_KEY].value
        /\ \A name \in getTemplateNames(service) :
            LET deleted == deleteTemplate(service, storage, name)
            IN getTemplateNames(constructor(deleted.st).s) =
                getTemplateNames(service) \ {name}

\* every template has been deleted and the service constructed again: it has no
\* template
C15_Witness ==
    /\ page = "service" /\ ev.op = "constructor"
    /\ storage[ROLEPLAY_TEMPLATES_KEY].kind = "json"
    /\ DOMAIN storage[ROLEPLAY_TEMPLATES_KEY].value = {}
    /\ getTemplateNames(service) = {}

\* two templates equal in every field (a key that is not held reads as undefined)
SameTemplate(a, b) == \A k \in TemplateKeys : Get(a, k) = Get(b, k)

\* C16: when saveTemplate(n, t) reports success, getTemplate(n) called next
\* returns a template equal to t in every field; when deleteTemplate(n) reports
\* success, getTemplate(n) called next returns nothing.
C16_GetAfterSaveAndAfterDelete ==
    page = "service" =>
        /\ \A n \in TemplateNames, t \in TemplateValues :
            LET saved == saveTemplate(service, storage, n, t)
                got == getTemplate(saved.s, n)
            IN saved.result => got.found /\ SameTemplate(got.value, t)
        /\ \A n \in TemplateNames \cup OtherNames \cup getTemplateNames(service) :
            LET deleted == deleteTemplate(service, storage, n)
            IN deleted.result => getTemplate(deleted.s, n) = NoTemplate

\* what saveTemplate(name, t) is to do when the template goes under the key:
\* fail and change nothing when name trims to empty, otherwise succeed with
\* the collection, in memory and stored, holding t under key and every other
\* name as before
SavedUnder(key, name, t) ==
    LET r == saveTemplate(service, storage, name, t)
        before == service.templates
        after == r.s.templates
    IN IF trim(name) = ""
       THEN r.result = FALSE /\ r.s = service /\ r.st = storage
       ELSE /\ r.result = TRUE
            /\ DOMAIN after = DOMAIN before \cup {key}
            /\ SameTemplate(after[key], t)
            /\ \A other \in DOMAIN before \ {key} : after[other] = before[other]
            /\ r.st[ROLEPLAY_TEMPLATES_KEY].kind = "json"
            /\ DOMAIN r.st[ROLEPLAY_TEMPLATES_KEY].value = DOMAIN after

Deleted(name) ==
    LET r == deleteTemplate(service, storage, name)
        before == service.templates
    IN IF name \notin DOMAIN before
       THEN r.result = FALSE /\ r.s = service /\ r.st = storage
       ELSE /\ r.result = TRUE
            /\ r.s.templates = Without(before, name)
            /\ r.s.settings = service.settings
            /\ r.st[ROLEPLAY_TEMPLATES_KEY] = Item(JsonCollection(Without(before, name)))

\* C18: deleteTemplate(name) fails exactly when name is not in the collection,
\* and then changes neither the templates in memory nor localStorage; when the
\* name is in the collection it removes that template, keeps the others, writes
\* the collection to localStorage and succeeds.
C18_DeleteTemplateFailsExactlyOnUnknown ==
    page = "service" =>
        \A name \in TemplateNames \cup OtherNames \cup getTemplateNames(service) :
            Deleted(name)

\* two collections with the same names and, under each, templates equal in
\* every field
SameCollection(a, b) ==
    /\ DOMAIN a = DOMAIN b
    /\ \A n \in DOMAIN a : SameTemplate(a[n], b[n])

\* after the call with outcome r the stored collection is the one in memory, and
\* so is the collection of a service constructed over that localStorage
InStep(r) ==
    r.result =>
        /\ r.st[ROLEPLAY_TEMPLATES_KEY].kind = "json"
        /\ SameCollection(r.st[ROLEPLAY_TEMPLATES_KEY].value, r.s.templates)
        /\ SameCollection(constructor(r.st).s.templates, r.s.templates)

\* C19: after every saveTemplate or deleteTemplate that succeeds, the collection
\* in localStorage equals the collection in memory, and a service constructed
\* afterwards over the same localStorage has the same names and templates.
C19_StoredCollectionFollowsMemory ==
    page = "service" =>
        /\ \A name \in TemplateNames, t \in TemplateValues :
            InStep(saveTemplate(service, storage, name, t))
        /\ \A name \in TemplateNames \cup OtherNames \cup getTemplateNames(service) :
            InStep(deleteTemplate(service, storage, name))

\* a service constructed after a template was saved and a built-in one deleted
\* has the saved one and not the deleted one
C19_Witness ==
    /\ page = "service" /\ ev.op = "constructor"
    /\ "Custom" \in getTemplateNames(service)
    /\ "Detective" \notin getTemplateNames(service)
    /\ "History" \in getTemplateNames(service)
    /\ SameCollection(storage[ROLEPLAY_TEMPLATES_KEY].value, service.templates)

-----------------------------------------------------------------------------
(* A caller that keeps the template getTemplate returned and writes to it.   *)

\* the fields the caller writes and what it writes
HeldEdits == {<<"characterName", "Mallory">>, <<"avatarBase64", Val("avatarBase64", 1)>>}

SvcGetTemplate ==
    /\ \E name \in getTemplateNames(service) \cup OtherNames :
        LET r == getTemplate(service, name)
        IN r.found /\ held' = Handle(name, r)
    /\ ev' = Plain("getTemplate")
    /\ UNCHANGED <<messages, roleplaySettings, showRoleplaySettings, loading, stream, calls,
                   page, service, storage>>

SvcMutateHeld ==
    /\ held.kind = "template"
    /\ \E e \in HeldEdits :
        LET m == Assign(service, held, e[1], e[2])
        IN held' = m.held /\ service' = m.s
    /\ ev' = Plain("mutate")
    /\ UNCHANGED <<messages, roleplaySettings, showRoleplaySettings, loading, stream, calls,
                   page, storage>>

NextTemplates ==
    \/ SvcGetTemplate
    \/ SvcMutateHeld
    \/ SvcSaveTemplate
    \/ SvcDeleteTemplate
    \/ SvcRestart

SpecTemplates == InitService /\ [][NextTemplates]_vars

\* getTemplate of a revision of the service
GetBy(revision, s, name) ==
    IF revision = "latest" THEN getTemplate(s, name) ELSE olderGetTemplate(s, name)

\* the caller's write e to the object that getTemplate(name) returned changes
\* neither what getTemplate and applyTemplate give afterwards nor what the next
\* write of the collection stores
Detached(revision, name, e) ==
    LET r == GetBy(revision, service, name)
        m == Assign(service, Handle(name, r), e[1], e[2])
    IN r.found =>
        /\ m.held.value[e[1]] = e[2]
        /\ GetBy(revision, m.s, name) = r
        /\ applyTemplate(m.s, storage, name) = applyTemplate(service, storage, name)
        /\ saveTemplates(m.s, storage).st = saveTemplates(service, storage).st

-----------------------------------------------------------------------------
(* A caller that lists the names of the templates.                           *)

SvcGetTemplateNames ==
    /\ \E keys \in KeyOrders(service.templates) :
        held' = [kind |-> "names", value |-> listTemplateNames(service, keys)]
    /\ ev' = Plain("getTemplateNames")
    /\ UNCHANGED <<messages, roleplaySettings, showRoleplaySettings, loading, stream, calls,
                   page, service, storage>>

NextNames ==
    \/ SvcGetTemplateNames
    \/ SvcSaveTemplate
    \/ SvcDeleteTemplate
    \/ SvcRestart

SpecNames == InitService /\ [][NextNames]_vars

\* names holds each name of the collection once, in ascending order
SortedNamesOf(names, s) ==
    /\ Len(names) = Cardinality(DOMAIN s.templates)
    /\ {names[i] : i \in DOMAIN names} = DOMAIN s.templates
    /\ \A i \in 1..(Len(names) - 1) : Before(names[i], names[i + 1])

\* C21: getTemplateNames returns exactly the names of the collection, each
\* once, in ascending order, and the same sequence at every call while the
\* collection is the same, in whatever order the names were inserted.
C21_NamesSortedAndStable ==
    page = "service" =>
        LET orders == KeyOrders(service.templates)
            first == listTemplateNames(service, CHOOSE keys \in orders : TRUE)
        IN /\ SortedNamesOf(first, service)
           /\ \A again \in orders : listTemplateNames(service, again) = first

\* the names were listed while the collection held a saved template and the
\* built-in ones
C21_Witness ==
    /\ page = "service" /\ ev.op = "getTemplateNames"
    /\ held = [kind |-> "names",
               value |-> <<"Custom", "Detective", "Fantasy Adventure", "History", "Sci-Fi">>]
    /\ DOMAIN service.templates = {"Custom"} \cup DOMAIN DEFAULT_TEMPLATES

-----------------------------------------------------------------------------
(* Settings in the revision before, and a caller that writes to the settings *)
(* object loadSettings returned.                                             *)

\* RoleplayService.loadSettings of the revision before: the stored fields over
\* the fields in memory; a text that does not parse is left aside
olderLoadSettings(s, st) ==
    LET s1 == IF st[ROLEPLAY_SETTINGS_KEY].kind = "json"
              THEN [s EXCEPT !.settings = Spread(@, st[ROLEPLAY_SETTINGS_KEY].value)]
              ELSE s
    IN [s |-> s1, st |-> st, result |-> s1.settings]

\* one clause of the older prompt: separator, label and field when it is truthy
OlderClause(settings, key, separator, label) ==
    IF Truthy(Get(settings, key)) THEN separator \o label \o settings[key] ELSE ""

\* RoleplayService.generateSystemPrompt of the revision before
olderGenerateSystemPrompt(s) ==
    IF ~s.settings.isRoleplayMode THEN ""
    ELSE Preamble
         \o OlderClause(s.settings, "characterName", "\n", "Your name is: ")
         \o OlderClause(s.settings, "characterRole", "\n", "Your role is: ")
         \o OlderClause(s.settings, "sceneDescription", "\n", "Current scene: ")
         \o OlderClause(s.settings, "scenarioDescription", "\n", "Current scenario: ")
         \o OlderClause(s.settings, "systemPrompt", "\n\n", "Extra instructions: ")
         \o "\n\n" \o Closing

\* RoleplayService.generateWelcomeMessage of the revision before
olderGenerateWelcomeMessage(s) ==
    IF ~s.settings.isRoleplayMode THEN NoMessage
    ELSE IF Truthy(Get(s.settings, "characterName")) \/ Truthy(Get(s.settings, "characterRole"))
    THEN [role |-> "ai",
          content |->
              "*" \o (IF Truthy(Get(s.settings, "characterName"))
                      THEN s.settings.characterName ELSE "AI")
              \o (IF Truthy(Get(s.settings, "characterRole"))
                  THEN " (" \o s.settings.characterRole \o ")" ELSE "")
              \o " has entered the conversation.*"]
    ELSE NoMessage

\* the object loadSettings returns: `return deepClone(this.settings)` in the
\* latest revision, `return this.settings` in the one before
Returned(revision, r) ==
    [kind |-> "settings", value |-> r.result, shared |-> revision = "older"]

\* the caller's assignment h.value[k] = v to a settings object: it changes the
\* settings of the service when the two are one object
AssignSettings(s, h, k, v) ==
    [s |-> IF h.shared THEN [s EXCEPT !.settings = With(@, k, v)] ELSE s,
     held |-> [h EXCEPT !.value = With(@, k, v)]]

\* what a caller writes to the settings it got
SettingsEdits == {<<"isRoleplayMode", TRUE>>, <<"characterName", "Mallory">>}

\* C22: loadSettings returns a copy: a write by the caller to a field of the
\* settings it returned changes neither the settings of the service nor what
\* generateSystemPrompt and generateWelcomeMessage give, in the latest
\* revision and in the one before.
C22_LoadSettingsReturnsACopy ==
    page = "service" =>
        \A e \in SettingsEdits :
            /\ LET r == loadSettings(service, storage)
                   m == AssignSettings(r.s, Returned("latest", r), e[1], e[2])
               IN /\ m.s.settings = r.s.settings
                  /\ generateSystemPrompt(m.s) = generateSystemPrompt(r.s)
                  /\ svcGenerateWelcomeMessage(m.s) = svcGenerateWelcomeMessage(r.s)
            /\ LET r == olderLoadSettings(service, storage)
                   m == AssignSettings(r.s, Returned("older", r), e[1], e[2])
               IN /\ m.s.settings = r.s.settings
                  /\ olderGenerateSystemPrompt(m.s) = olderGenerateSystemPrompt(r.s)
                  /\ olderGenerateWelcomeMessage(m.s) = olderGenerateWelcomeMessage(r.s)

-----------------------------------------------------------------------------
(* The prompt composer alone: a service holding any settings, and a caller   *)
(* that asks for the system prompt and the welcome message.                  *)

\* the settings the composer is given: every string field empty or not, either
\* mode, with and without an avatar
PromptInputs ==
    {[isRoleplayMode |-> m, avatarBase64 |-> a] @@ fields :
        m \in BOOLEAN, a \in {undefined, Val("avatarBase64", 1)},
        fields \in {[k \in IdentityKeys |-> Val(k, i[k])] : i \in [IdentityKeys -> {0, 1}]}}

InitPrompt ==
    \E settings \in PromptInputs :
        LET c == constructor(InitStorage(NoItem, NoItem))
            saved == saveSettings(c.s, c.st, settings)
        IN /\ page = "prompt"
           /\ service = saved.s
           /\ storage = saved.st
           /\ roleplaySettings = deepClone(saved.s.settings)
           /\ messages = << >>
           /\ showRoleplaySettings = FALSE
           /\ loading = FALSE
           /\ stream = Idle
           /\ calls = NoCalls
           /\ ev = NoEvent
           /\ held = NoHandle

\* generateSystemPrompt that also turns the mode of the service's settings on
PromptGenerateSystemPromptWriting ==
    /\ held' = [kind |-> "prompt", value |-> generateSystemPrompt(service)]
    /\ ev' = Plain("generateSystemPrompt")
    /\ service' = [service EXCEPT !.settings.isRoleplayMode = TRUE]
    /\ UNCHANGED <<messages, roleplaySettings, showRoleplaySettings, loading, stream, calls,
                   page, storage>>

PromptGenerateSystemPrompt ==
    /\ held' = [kind |-> "prompt", value |-> generateSystemPrompt(service)]
    /\ ev' = Plain("generateSystemPrompt")
    /\ UNCHANGED <<messages, roleplaySettings, showRoleplaySettings, loading, stream, calls,
                   page, service, storage>>

PromptGenerateWelcomeMessage ==
    /\ held' = [kind |-> "welcome", value |-> svcGenerateWelcomeMessage(service)]
    /\ ev' = Plain("generateWelcomeMessage")
    /\ UNCHANGED <<messages, roleplaySettings, showRoleplaySettings, loading, stream, calls,
                   page, service, storage>>

\* the caller saves other settings and keeps no text of the settings before
PromptSaveSettings ==
    /\ \E settings \in Edits(service.settings) :
        LET r == saveSettings(service, storage, settings)
        IN service' = r.s /\ storage' = r.st
    /\ held' = NoHandle
    /\ ev' = Plain("saveSettings")
    /\ UNCHANGED <<messages, roleplaySettings, showRoleplaySettings, loading, stream, calls, page>>

NextPrompt ==
    \/ PromptGenerateSystemPrompt
    \/ PromptGenerateWelcomeMessage
    \/ PromptSaveSettings

SpecPrompt == InitPrompt /\ [][NextPrompt]_vars

\* C23: generateSystemPrompt returns the empty string exactly when
\* isRoleplayMode is false, and generateWelcomeMessage returns nothing whenever
\* isRoleplayMode is false, whatever the other fields are.
C23_ModeGatesTheComposer ==
    page = "prompt" =>
        /\ generateSystemPrompt(service) = "" <=> ~service.settings.isRoleplayMode
        /\ ~service.settings.isRoleplayMode =>
            svcGenerateWelcomeMessage(service) = NoMessage

\* the prompt was asked outside roleplay mode with every field filled, and is
\* empty
C23_Witness ==
    /\ page = "prompt" /\ ev.op = "generateSystemPrompt"
    /\ ~service.settings.isRoleplayMode
    /\ \A k \in TemplateKeys : Truthy(service.settings[k])
    /\ held = [kind |-> "prompt", value |-> ""]

\* a clause of the prompt as the claim has it: a blank line, then the label and
\* the field, when the field is not empty
Part(settings, key, label) ==
    IF settings[key] # "" THEN "\n\n" \o label \o settings[key] ELSE ""

\* the prompt of the claim: preamble, the five clauses in their order, closing
\* instruction, each joined to the one before by a blank line
Composed(settings) ==
    Preamble
    \o Part(settings, "characterName", "Your name is: ")
    \o Part(settings, "characterRole", "Your role is: ")
    \o Part(settings, "sceneDescription", "Current scene: ")
    \o Part(settings, "scenarioDescription", "Current scenario: ")
    \o Part(settings, "systemPrompt", "Extra instructions: ")
    \o "\n\n" \o Closing

\* C24: in roleplay mode the system prompt is the preamble, the name, role,
\* scene, scenario and extra-instructions clauses and the closing instruction in
\* that order, a clause being there exactly when its field is not empty, joined
\* by blank lines; with the five fields empty it is the preamble, a blank line
\* and the closing instruction. In the latest revision and the one before.
C24_PromptClausesInOrder ==
    (page = "prompt" /\ service.settings.isRoleplayMode) =>
        /\ generateSystemPrompt(service) = Composed(service.settings)
        /\ olderGenerateSystemPrompt(service) = Composed(service.settings)

\* C25: in roleplay mode generateWelcomeMessage returns nothing when
\* characterName and characterRole are both empty, and otherwise one message
\* of role ai; it never returns a message of role user or system.
C25_WelcomeOnlyForNamedCharacter ==
    (page = "prompt" /\ service.settings.isRoleplayMode) =>
        LET welcome == svcGenerateWelcomeMessage(service)
        IN /\ welcome.role \notin {"user", "system"}
           /\ IF service.settings.characterName = "" /\ service.settings.characterRole = ""
              THEN welcome = NoMessage
              ELSE welcome.role = "ai"

-----------------------------------------------------------------------------
(* The service over a localStorage that may hold anything and may fail.      *)

\* what the settings key may hold: nothing, a text that does not parse, a key
\* that cannot be read, null, settings with one field only, whole settings; and
\* a key that cannot be written
CorruptStoredSettings ==
    LET whole == Item(JsonObject([defaultSettings EXCEPT !.characterName = "Nova-7",
                                                         !.isRoleplayMode = TRUE]))
    IN {NoItem, Garbage, Unreadable, Item(null), Item([isRoleplayMode |-> TRUE]),
        Item([isRoleplayMode |-> TRUE, avatarBase64 |-> nullField]),
        whole, Lock(NoItem), Lock(whole)}

\* what the templates key may hold
CorruptStoredTemplates ==
    {NoItem, Garbage, Item(null), Lock(NoItem),
     Item(JsonCollection([n \in {"Sci-Fi"} |-> DEFAULT_TEMPLATES[n]]))}

InitStorageFaults ==
    \E ss \in CorruptStoredSettings, ts \in CorruptStoredTemplates :
        LET c == constructor(InitStorage(ss, ts))
        IN /\ page = "storage"
           /\ service = c.s
           /\ storage = c.st
           /\ roleplaySettings = deepClone(c.s.settings)
           /\ messages = << >>
           /\ showRoleplaySettings = FALSE
           /\ loading = FALSE
           /\ stream = Idle
           /\ calls = NoCalls
           /\ ev = NoEvent
           /\ held = NoHandle

NextStorageFaults ==
    \/ SvcLoadSettings
    \/ SvcSaveSettings
    \/ SvcApplyTemplate
    \/ SvcRestart

SpecStorageFaults == InitStorageFaults /\ [][NextStorageFaults]_vars

\* the default each key is loaded with
DefaultOf(key) ==
    IF key = ROLEPLAY_SETTINGS_KEY THEN defaultSettings ELSE DEFAULT_TEMPLATES

\* the values the service writes under a key
WrittenUnder(key) ==
    IF key = ROLEPLAY_SETTINGS_KEY THEN Edits(defaultSettings)
    ELSE {DEFAULT_TEMPLATES, [n \in {"Custom"} |-> DEFAULT_TEMPLATES["Detective"]]}

\* C29: loadFromStorage never throws: it returns the default when the key holds
\* nothing, when the stored text does not parse and when reading fails, and the
\* parsed value otherwise; saveToStorage does not throw when the write fails and
\* then leaves what was stored under the key.
C29_StorageUtilsSwallowFailures ==
    page = "storage" =>
        \A key \in DOMAIN storage :
            /\ LET loaded == loadFromStorage(storage, key, DefaultOf(key))
               IN /\ loaded # Thrown
                  /\ storage[key].kind \in {"absent", "garbage", "unreadable"} =>
                        loaded = DefaultOf(key)
                  /\ storage[key].kind = "json" => loaded = storage[key].value
            /\ \A value \in WrittenUnder(key) :
                LET saved == saveToStorage(storage, key, value)
                IN /\ \A other \in DOMAIN storage \ {key} : saved[other] = storage[other]
                   /\ IF Locked(storage[key]) THEN saved[key] = storage[key]
                      ELSE saved[key] = Item(Json(key, value))

\* settings were saved while the settings key could not be written: the service
\* holds them and localStorage holds what it held
C29_Witness ==
    /\ page = "storage" /\ ev.op = "saveSettings"
    /\ Locked(storage[ROLEPLAY_SETTINGS_KEY])
    /\ storage[ROLEPLAY_SETTINGS_KEY].kind = "json"
    /\ storage[ROLEPLAY_SETTINGS_KEY].value.characterName = "Nova-7"
    /\ service.settings.characterName = ""
    /\ storage[ROLEPLAY_TEMPLATES_KEY] = Garbage

\* the settings of a service constructed over the localStorage of this state
\* when it holds no settings: name as given, the other string fields empty, mode
\* off, no avatar; and after loadSettings every string field is a string
StartsWith(name) ==
    /\ storage[ROLEPLAY_SETTINGS_KEY].kind = "absent" =>
        LET started == constructor(storage).s.settings
        IN /\ started.characterName = name
           /\ \A k \in IdentityKeys \ {"characterName"} : Get(started, k) = ""
           /\ started.isRoleplayMode = FALSE
           /\ Get(started, "avatarBase64") = undefined
    /\ LET loaded == loadSettings(service, storage)
       IN \A k \in IdentityKeys :
            Get(loaded.s.settings, k) # undefined /\ Get(loaded.result, k) # undefined

\* C27: a service started over a localStorage without settings has the
\* characterName of the built-in default ("AI Assistant" here), every other
\* string field empty, isRoleplayMode false and no avatar; and after any load
\* no string field is absent.
C27_DefaultsNameTheAssistant == page = "storage" => StartsWith(defaultSettings.characterName)

\* C27 as stated: the characterName of such a service is empty as well
C27_DefaultsAllEmpty == page = "storage" => StartsWith("")

\* a service was constructed over a localStorage without settings and holds
\* the built-in defaults
C27_Witness ==
    /\ page = "storage" /\ ev.op = "constructor"
    /\ storage[ROLEPLAY_SETTINGS_KEY] = NoItem
    /\ service.settings = defaultSettings

-----------------------------------------------------------------------------
(* The avatar: handleImageUpload of the settings form.                       *)

\* what reader.result is when onloadend runs: the data URL of the compressed
\* image, or null when the read failed (loadend follows error as well)
ReaderResults == {Val("avatarBase64", 1), nullField}

\* handleImageUpload: the settings the form hands to the page's handler when
\* reader.onloadend has run with result as reader.result
handleImageUpload(settings, result) == With(settings, "avatarBase64", result)

\* the avatar of the settings is absent or a non-empty string
AvatarOk(settings) ==
    \/ Get(settings, "avatarBase64") = undefined
    \/ settings.avatarBase64 \notin {"", nullField}

\* C28: in every reachable state the avatar of the service's settings is absent
\* or a non-empty image string, never the empty string or null: after
\* loadSettings, saveSettings, applyTemplate, the removal of the avatar and an
\* upload of an avatar.
C28_AvatarAbsentOrImage ==
    /\ AvatarOk(service.settings)
    /\ page \in {"direct", "inline"} =>
        \A result \in ReaderResults :
            LET uploaded == handleImageUpload(roleplaySettings, result)
                w == IF page = "direct" THEN handleSettingsChange(World, uploaded)
                     ELSE effect(World, onSettingsChange(World, uploaded, TRUE))
            IN AvatarOk(w.service.settings)

\* the item is not an object the service wrote: a text that does not parse, a
\* key that cannot be read, or null
Corrupted(item) ==
    item.kind \in {"garbage", "unreadable"} \/ (item.kind = "json" /\ item.value = null)

\* the call gave a value: it did not throw
Completes(result) == result # Thrown /\ "thrown" \notin DOMAIN result

\* C30: whatever localStorage holds under the settings key and the templates
\* key (nothing, a text that does not parse, JSON of another shape such as
\* null), the constructor followed by loadSettings, getTemplateNames,
\* getTemplate and applyTemplate does not throw, and a corrupted item gives the
\* default settings, respectively the built-in templates.
C30_CorruptStorageFallsBack ==
    page = "storage" =>
        LET c == constructor(storage)
            l == loadSettings(c.s, c.st)
        IN /\ \A keys \in KeyOrders(l.s.templates) :
                listTemplateNames(l.s, keys) # Thrown
           /\ \A name \in {"Sci-Fi", "nonexistent"} :
                /\ Completes(getTemplate(l.s, name))
                /\ Completes(applyTemplate(l.s, l.st, name).result)
           /\ Corrupted(storage[ROLEPLAY_SETTINGS_KEY]) => l.s.settings = defaultSettings
           /\ Corrupted(storage[ROLEPLAY_TEMPLATES_KEY]) => l.s.templates = DEFAULT_TEMPLATES

-----------------------------------------------------------------------------
(* The async handlers of the page with handleSettingsChange: fetchModels and  *)
(* generateTemplateAI share the loading flag with sendMessage.               *)

\* the generatedData of an answer that names every field
GeneratedData ==
    [characterName |-> "Kira", characterRole |-> "cyberpunk detective",
     sceneDescription |-> "a city of the future",
     scenarioDescription |-> "a client walks in",
     systemPrompt |-> "stay in character"]

\* what generatorLLM.invoke gives: it throws, or it answers a text that
\* JSON.parse rejects, or a text that parses to null or to an object
AiResponses ==
    {[kind |-> "throws"], [kind |-> "text"], [kind |-> "json", value |-> null]}
    \cup {[kind |-> "json", value |-> d] :
            d \in {GeneratedData, [GeneratedData EXCEPT !.systemPrompt = ""]}
                  \cup {Without(GeneratedData, k) : k \in IdentityKeys}
                  \cup {[GeneratedData EXCEPT ![k] = ""] : k \in IdentityKeys}}

\* the answer parses to an object that passes the check of the required fields
Usable(aiResponse) ==
    /\ aiResponse.kind = "json"
    /\ aiResponse.value # null
    /\ \A k \in IdentityKeys \ {"systemPrompt"} : Truthy(Get(aiResponse.value, k))
    /\ Get(aiResponse.value, "systemPrompt") # undefined

\* generateTemplateAI assigning the fields one by one as it checks them
generateTemplateAIFieldwise(w, valid, aiResponse) ==
    IF ~valid THEN [w |-> w, alerted |-> TRUE, thrown |-> TRUE]
    ELSE IF aiResponse.kind # "json" \/ aiResponse.value = null
    THEN [w |-> w, alerted |-> TRUE, thrown |-> TRUE]
    ELSE LET g == aiResponse.value
             taken == [k \in {j \in IdentityKeys : Get(g, j) # undefined} |-> g[k]]
         IN [w |-> [w EXCEPT !.roleplaySettings =
                        With(Spread(@, taken), "avatarBase64", undefined)],
             alerted |-> ~Usable(aiResponse), thrown |-> ~Usable(aiResponse)]

\* generateTemplateAI(description) from the answer of generatorLLM.invoke on:
\* valid is isModelValid when the handler was called. The result holds the
\* world it leaves, whether alert() was called and whether it threw.
generateTemplateAI(w, valid, aiResponse) ==
    IF ~valid THEN [w |-> w, alerted |-> TRUE, thrown |-> TRUE]
    ELSE IF ~Usable(aiResponse) THEN [w |-> w, alerted |-> TRUE, thrown |-> TRUE]
    ELSE LET g == aiResponse.value
         IN [w |-> [w EXCEPT !.roleplaySettings =
                        With(Spread(@, [k \in IdentityKeys |-> g[k]]),
                             "avatarBase64", undefined)],
             alerted |-> FALSE, thrown |-> FALSE]

\* the page is mounted over a localStorage without settings: onMount has called
\* fetchModels, which waits for the list of models
InitHost ==
    LET c == constructor(InitStorage(NoItem, Item(JsonCollection(DEFAULT_TEMPLATES))))
        l == loadSettings(c.s, c.st)
    IN /\ page = "direct"
       /\ messages = << >>
       /\ roleplaySettings = l.result
       /\ showRoleplaySettings = FALSE
       /\ service = l.s
       /\ storage = l.st
       /\ loading = TRUE
       /\ stream = Idle
       /\ calls = [NoCalls EXCEPT !.isModelValid = FALSE, !.fetching = TRUE]
       /\ ev = NoEvent
       /\ held = NoHandle

\* handleUrlChange: fetchModels up to its await. The URL field is disabled
\* while loading is true; one fetchModels call is followed at a time.
HandleUrlChange ==
    /\ ~loading
    /\ ~calls.fetching
    /\ loading' = TRUE
    /\ calls' = [calls EXCEPT !.isModelValid = FALSE, !.fetching = TRUE]
    /\ ev' = Plain("handleUrlChange")
    /\ UNCHANGED <<messages, roleplaySettings, showRoleplaySettings, stream, service, storage,
                   page, held>>

\* fetchModels from the answer of ollamaService.fetchModels on: the chosen model
\* is in the list or it is not; finally { loading = false }
FetchModelsSettles ==
    /\ calls.fetching
    /\ \E valid \in BOOLEAN :
        calls' = [calls EXCEPT !.isModelValid = valid, !.fetching = FALSE]
    /\ loading' = FALSE
    /\ ev' = Plain("fetchModels")
    /\ UNCHANGED <<messages, roleplaySettings, showRoleplaySettings, stream, service, storage,
                   page, held>>

\* the generate button of the settings panel (disabled while isGeneratingAI or
\* while the model is not valid): generateTemplateAI up to its await
GenerateTemplateAI ==
    /\ showRoleplaySettings
    /\ calls.isModelValid
    /\ ~calls.generating
    /\ loading' = TRUE
    /\ calls' = [calls EXCEPT !.generating = TRUE]
    /\ ev' = Plain("generate")
    /\ UNCHANGED <<messages, roleplaySettings, showRoleplaySettings, stream, service, storage,
                   page, held>>

\* generateTemplateAI from the answer of generatorLLM.invoke on;
\* finally { loading = false }
GenerateTemplateAISettles ==
    /\ calls.generating
    /\ \E aiResponse \in AiResponses :
        LET r == generateTemplateAI(World, TRUE, aiResponse)
        IN /\ Commit(r.w)
           /\ ev' = Plain(IF r.thrown THEN "generateTemplateAI failed"
                          ELSE "generateTemplateAI")
    /\ loading' = FALSE
    /\ calls' = [calls EXCEPT !.generating = FALSE]
    /\ UNCHANGED <<stream, page, held>>

\* a chunk of the stream of an earlier sendMessage call
EarlierChunk ==
    /\ calls.earlier # << >>
    /\ Head(calls.earlier).chunks < MaxChunks
    /\ LET e == Head(calls.earlier)
       IN IF e.aiMessageIndex <= Len(messages)
          THEN /\ messages' = [messages EXCEPT ![e.aiMessageIndex].content = @ \o "chunk"]
               /\ calls' = [calls EXCEPT !.earlier = <<[e EXCEPT !.chunks = @ + 1]>> \o Tail(@)]
               /\ loading' = loading
          ELSE /\ messages' = Append(messages, AiMessage(ErrorContent))
               /\ calls' = [calls EXCEPT !.earlier = Tail(@)]
               /\ loading' = FALSE
    /\ ev' = Plain("earlier chunk")
    /\ UNCHANGED <<roleplaySettings, showRoleplaySettings, stream, service, storage, page, held>>

\* the stream of an earlier sendMessage call ends: finally { loading = false }
EarlierEnd ==
    /\ calls.earlier # << >>
    /\ calls' = [calls EXCEPT !.earlier = Tail(@)]
    /\ loading' = FALSE
    /\ ev' = Plain("earlier streamEnd")
    /\ UNCHANGED <<messages, roleplaySettings, showRoleplaySettings, stream, service, storage,
                   page, held>>

\* the stream of an earlier sendMessage call throws
EarlierError ==
    /\ calls.earlier # << >>
    /\ LET e == Head(calls.earlier)
       IN messages' = IF e.aiMessageIndex <= Len(messages)
                      THEN [messages EXCEPT ![e.aiMessageIndex].content = ErrorContent]
                      ELSE Append(messages, AiMessage(ErrorContent))
    /\ calls' = [calls EXCEPT !.earlier = Tail(@)]
    /\ loading' = FALSE
    /\ ev' = Plain("earlier streamError")
    /\ UNCHANGED <<roleplaySettings, showRoleplaySettings, stream, service, storage, page, held>>

NextHost ==
    \/ ToggleRoleplaySettings
    \/ StartRoleplay
    \/ SendMessage
    \/ StreamChunk
    \/ StreamEnd
    \/ StreamError
    \/ EarlierChunk
    \/ EarlierEnd
    \/ EarlierError
    \/ HandleUrlChange
    \/ FetchModelsSettles
    \/ GenerateTemplateAI
    \/ GenerateTemplateAISettles

\* the page with handleSettingsChange: the handlers that set and clear loading,
\* beside the start button
SpecHost == InitHost /\ [][NextHost]_vars

NextGenerate ==
    \/ ToggleRoleplaySettings
    \/ HandleSettingsChange
    \/ ApplyTemplate
    \/ HandleUrlChange
    \/ FetchModelsSettles
    \/ GenerateTemplateAI
    \/ GenerateTemplateAISettles

\* the page with handleSettingsChange: the handlers that write the settings
\* while the transcript is empty
SpecGenerate == InitHost /\ [][NextGenerate]_vars

\* the answers the request fails on: the call threw, the text does not parse,
\* or the object lacks one of the five fields
FailedAnswer(aiResponse) ==
    \/ aiResponse.kind \in {"throws", "text"}
    \/ aiResponse.value = null
    \/ \E k \in IdentityKeys : k \notin DOMAIN aiResponse.value

\* C31: when generateTemplateAI fails (the model call throws, its answer does
\* not parse, or a required field is missing) the user is alerted, and the
\* page's settings, the settings the service holds and the stored settings are
\* what they were before: no field is overwritten.
C31_FailedGenerationChangesNothing ==
    page = "direct" =>
        \A valid \in BOOLEAN, aiResponse \in AiResponses :
            LET r == generateTemplateAI(World, valid, aiResponse)
            IN /\ (~valid \/ FailedAnswer(aiResponse)) => r.thrown
               /\ r.thrown =>
                    /\ r.alerted
                    /\ r.w.roleplaySettings = roleplaySettings
                    /\ r.w.service = service
                    /\ r.w.storage = storage
                    /\ r.w.messages = messages

\* a generation failed after the user had edited the character's name, and the
\* edit is still in the page's settings and in the stored ones
C31_Witness ==
    /\ ev.op = "generateTemplateAI failed"
    /\ roleplaySettings.characterName = Val("characterName", 1)
    /\ PersistedAs(storage, roleplaySettings)
    /\ ~loading

-----------------------------------------------------------------------------
(* The avatar upload as a whole *)

\* how an upload ends: imageCompression rejects, or the FileReader fails to
\* read the compressed file, or it reads it
UploadOutcomes == {"compression fails", "read fails", "read"}

\* no settings were handed to the page's handler
NotEmitted == [kind |-> "none"]

\* handleImageUpload once the upload has ended. The form of the settings panel
\* ("panel": isUploadingImage, reader.onerror) and the older settings form
\* ("form": neither) both assign in reader.onloadend, which runs after a failed
\* read as well, with reader.result === null. The result holds the settings
\* handed to the page's handler, whether alert() was called and isUploadingImage.
handleImageUploadEnded(revision, settings, outcome) ==
    CASE outcome = "compression fails" ->
            [emitted |-> NotEmitted, alerted |-> TRUE, isUploadingImage |-> FALSE]
      [] outcome = "read fails" ->
            [emitted |-> handleImageUpload(settings, nullField),
             alerted |-> (revision = "panel"), isUploadingImage |-> FALSE]
      [] OTHER ->
            [emitted |-> handleImageUpload(settings, Val("avatarBase64", 1)),
             alerted |-> FALSE, isUploadingImage |-> FALSE]

\* C32: when an avatar upload fails, in compression or in reading the
\* compressed file, an error is shown, no settings with a new avatar are handed
\* to the page, so the avatar keeps its value, and the uploading flag is false
\* again.
C32_FailedUploadKeepsAvatar ==
    page = "direct" =>
        \A revision \in {"panel", "form"}, outcome \in UploadOutcomes \ {"read"} :
            LET u == handleImageUploadEnded(revision, roleplaySettings, outcome)
            IN /\ u.alerted
               /\ ~u.isUploadingImage
               /\ u.emitted = NotEmitted

-----------------------------------------------------------------------------
(* The streamed reply against the handlers that reset the transcript *)

RECURSIVE Chunks(_)
\* the content of a placeholder that has received n chunks
Chunks(n) == IF n = 0 THEN "" ELSE Chunks(n - 1) \o "chunk"

\* C33: under any interleaving of a streamed reply with startRoleplay,
\* closeRoleplay, applyTemplate and a settings change that resets the
\* transcript, a chunk is appended only to the AI message that sendMessage
\* created for its request: after a chunk has been handled the message at
\* aiMessageIndex is an AI message holding the chunks of this stream and nothing
\* else, and the index was not past the end of the transcript.
C33_ChunksReachTheirPlaceholder ==
    ev.op = "chunk" =>
        /\ stream.active
        /\ stream.aiMessageIndex <= Len(messages)
        /\ messages[stream.aiMessageIndex].role = "ai"
        /\ messages[stream.aiMessageIndex].content = Chunks(stream.chunks)

\* C34: at most one stream is in flight: while a sendMessage call reads its
\* stream loading is true, so that no second call passes the guard, under every
\* interleaving with fetchModels and generateTemplateAI, which set and clear
\* the same flag.
C34_OneStreamInFlight ==
    /\ stream.active => loading
    /\ calls.earlier = << >>

-----------------------------------------------------------------------------
(* Termination of sendMessage *)

\* the page with handleSettingsChange, over a model whose stream ends or throws:
\* the for await loop of sendMessage leaves when the response is closed or fails
SpecDirectFair == SpecDirect /\ WF_vars(StreamEnd \/ StreamError)

\* the error text is in an AI message that follows a message of the user
ErrorAfterUser ==
    \E i \in 2..Len(messages) :
        /\ messages[i] = AiMessage(ErrorContent)
        /\ messages[i - 1].role = "user"

\* C35: every sendMessage call that passes its guard sets loading back to false
\* in the end, whether its stream completes or fails; when the stream fails the
\* error text is in the AI placeholder of the request, after the user's
\* message, which stays in the transcript.
C35_SendMessageSettles ==
    /\ stream.active ~> (~stream.active /\ ~loading)
    /\ [](ev.op = "streamError" => ErrorAfterUser)

-----------------------------------------------------------------------------
(* The three copies of the settings *)

\* no handler of the page is waiting for an answer
Settled == ~stream.active /\ calls.earlier = << >> /\ ~calls.generating /\ ~calls.fetching

\* C36: whenever no handler of the page is running, the page's roleplaySettings,
\* the settings the service holds and the stored settings (once any were
\* stored) agree in every field, after any sequence of settings changes,
\* template applications, AI generations, start and close; so
\* generateSystemPrompt() composes the prompt of the settings the user sees.
C36_ThreeCopiesAgree ==
    Settled =>
        /\ SameSettings(roleplaySettings, service.settings)
        /\ storage[ROLEPLAY_SETTINGS_KEY] # NoItem => PersistedAs(storage, roleplaySettings)
        /\ generateSystemPrompt(service) = generateRoleplaySystemPrompt(roleplaySettings)

-----------------------------------------------------------------------------
(* The system message of the transcript *)

\* the keys the fields of the settings panel edit, of those the explored
\* behaviours edit: the panel has no field for isRoleplayMode
PanelKeys == EditedKeys \ {"isRoleplayMode"}

\* an edit of a field of the settings panel
PanelSettingsChange ==
    /\ page = "direct"
    /\ showRoleplaySettings
    /\ \E k \in PanelKeys, i \in {0, 1} :
        LET newSettings == updateSetting(roleplaySettings, k, i)
        IN /\ Commit(handleSettingsChange(World, newSettings))
           /\ ev' = Event("handleSettingsChange", newSettings, World, FALSE)
    /\ UNCHANGED <<loading, stream, calls, page, held>>

NextPanel ==
    \/ ToggleRoleplaySettings
    \/ PanelSettingsChange
    \/ StartRoleplay
    \/ CloseRoleplay
    \/ ApplyTemplate
    \/ SendMessage
    \/ StreamChunk
    \/ StreamEnd
    \/ StreamError

\* the page with handleSettingsChange, driven through its settings panel
SpecPanel == InitDirect /\ [][NextPanel]_vars

\* the system messages of a transcript, in order
SystemMessages(msgs) == SelectSeq(msgs, LAMBDA m : m.role = "system")

\* C37: in every reachable state the transcript holds at most one system
\* message, it is the first message when there is one, and there is one only
\* while isRoleplayMode is true; sendMessage, the chunks of its stream and its
\* error handling neither add nor move nor remove a system message.
C37_OneSystemMessageInRoleplay ==
    /\ [](/\ \A i \in 2..Len(messages) : messages[i].role # "system"
          /\ HasSystem(messages) => roleplaySettings.isRoleplayMode)
    /\ [][(SendMessage \/ StreamChunk \/ StreamEnd \/ StreamError) =>
            /\ SystemMessages(messages') = SystemMessages(messages)
            /\ HasSystem(messages) => messages'[1] = messages[1]]_vars

\* in roleplay mode a stream has failed and the transcript still begins with
\* its one system message
C37_Witness ==
    /\ ev.op = "streamError"
    /\ roleplaySettings.isRoleplayMode
    /\ Len(messages) >= 3
    /\ messages[1].role = "system"
    /\ messages[Len(messages)] = AiMessage(ErrorContent)

-----------------------------------------------------------------------------
(* The page's applyTemplate *)

\* C38: the page's applyTemplate asks for confirmation exactly when roleplay
\* mode is on and the transcript is not empty; when the user declines, or when
\* the store holds no template of that name, the page's settings, the settings
\* the service holds, the stored settings and the transcript are unchanged;
\* when a template is applied the merged settings are persisted, and in
\* roleplay mode the transcript becomes the system message and the welcome
\* message, if any, composed from the template's values.
C38_ApplyTemplateFrame ==
    page = "direct" =>
        \A template \in TemplateInputs, answer \in BOOLEAN :
            LET ask == roleplaySettings.isRoleplayMode /\ Len(messages) > 0
                known == template \in getTemplateNames(service)
                w == pageApplyTemplate(World, template, answer)
            IN /\ w.asked = ask
               /\ ((ask /\ ~answer) \/ ~known) =>
                    /\ w.roleplaySettings = roleplaySettings
                    /\ w.service = service
                    /\ w.storage = storage
                    /\ w.messages = messages
               /\ (~(ask /\ ~answer) /\ known) =>
                    /\ \A k \in DOMAIN service.templates[template] :
                            w.roleplaySettings[k] = service.templates[template][k]
                    /\ w.roleplaySettings.isRoleplayMode = roleplaySettings.isRoleplayMode
                    /\ SameSettings(w.service.settings, w.roleplaySettings)
                    /\ PersistedAs(w.storage, w.roleplaySettings)
                    /\ w.messages = IF roleplaySettings.isRoleplayMode
                                    THEN FreshTranscript(w.roleplaySettings)
                                    ELSE messages

\* a template was applied in roleplay mode after the user confirmed: the
\* transcript is the fresh one of the template's character, whose settings are
\* stored
C38_Witness ==
    /\ page = "direct"
    /\ ev.op = "applyTemplate" /\ ev.confirm = "accepted"
    /\ roleplaySettings.isRoleplayMode
    /\ roleplaySettings.characterName = DEFAULT_TEMPLATES["Sci-Fi"].characterName
    /\ messages = FreshTranscript(roleplaySettings)
    /\ PersistedAs(storage, roleplaySettings)

====
